---- MODULE Spec2Model ----
(***************************************************************************)
(* Layout-to-text alignment pipeline of tzuratlink-data-llm                *)
(* (src/backend): layout extraction, margin filter, Rashi line splitting,  *)
(* stream assignment, segment alignment (lexical and embedding strategy),  *)
(* commentary span matching, boundary cuts, validation gate and the page   *)
(* document derived from the spans.                                        *)
(*                                                                         *)
(* Representation.                                                         *)
(*  - A text is a sequence of one-letter words; Python's None and "" are   *)
(*    both the empty sequence (every reader applies `x or ""`).            *)
(*  - Optional[int] / Optional[float] are sequences of length 0 or 1.      *)
(*  - A score v is the record [num, den2] with v = num / sqrt(den2), so    *)
(*    that both rapidfuzz ratios (rationals) and cosines (quotients by a   *)
(*    square root) are compared exactly with integer arithmetic.           *)
(*  - A Python dict is a function on its key set; where the code iterates  *)
(*    a dict the keys are visited in ascending order, which is the         *)
(*    insertion order of the ids the code generates (b<n>, s<i>).          *)
(***************************************************************************)
EXTENDS Integers, Sequences, FiniteSets, TLC

VARIABLES
    pc,                     \* position of the run / of the component under study
    page,                   \* [w, h]: page_image_w, page_image_h
    blocks,                 \* PipelineState.blocks   : block id -> Block
    lines,                  \* PipelineState.lines    : line id  -> Line
    streams,                \* PipelineState.streams  : sequence of Stream (s0 first)
    use_embeddings,         \* config.USE_EMBEDDINGS_FOR_MAIN_ALIGN
    unknown_block_ids,      \* PipelineState.unknown_block_ids
    unassigned_stream_ids,  \* PipelineState.unassigned_stream_ids
    segment_spans,          \* PipelineState.segment_spans
    boundary_cut_failures,  \* PipelineState.boundary_cut_failures
    validation_flags,       \* PipelineState.validation_flags
    needs_human_review,     \* PipelineState.needs_human_review
    al,                     \* locals of one aligner call (cursor p, segment index, embeddings)
    commentary_spans,       \* result of extract_commentary_spans_from_blocks
    page_bboxes,            \* bboxes of the derived page document
    pages_db,               \* the pages collection (inserted page documents)
    sessions_db,            \* the sessions collection: session id -> serialized state
    ocr,                    \* what the OCR engine returns for the page and its line crops
    embedding,              \* what the embedding service returns: text -> vector
    call                    \* locals of one call to a remote model service

vars == << pc, page, blocks, lines, streams, use_embeddings, unknown_block_ids,
           unassigned_stream_ids, segment_spans, boundary_cut_failures,
           validation_flags, needs_human_review, al, commentary_spans,
           page_bboxes, pages_db, sessions_db, ocr,
                 embedding, call >>

None == "None"

Min(a, b) == IF a <= b THEN a ELSE b
Max(a, b) == IF a >= b THEN a ELSE b

Range(s) == { s[i] : i \in 1..Len(s) }

(***************************************************************************)
(* Scores                                                                  *)
(***************************************************************************)
Score(n, d2) == [num |-> n, den2 |-> d2]
Ratio(n, d) == Score(n, d * d)          \* the rational n / d, d > 0
ScoreZero == Score(0, 1)                \* 0.0
ScoreOne == Score(1, 1)                 \* 1.0
ScoreMinusOne == Score(-1, 1)           \* -1.0, the initial best_sc

\* a > b for a = a.num / sqrt(a.den2), b = b.num / sqrt(b.den2)
ScoreGT(a, b) ==
    IF a.num >= 0 /\ b.num < 0 THEN TRUE
    ELSE IF a.num < 0 /\ b.num >= 0 THEN FALSE
    ELSE IF a.num >= 0
         THEN a.num * a.num * b.den2 > b.num * b.num * a.den2
         ELSE a.num * a.num * b.den2 < b.num * b.num * a.den2

ScoreLT(a, b) == ScoreGT(b, a)
ScoreGE(a, b) == ~ScoreGT(b, a)
ScoreEQ(a, b) == ~ScoreGT(a, b) /\ ~ScoreGT(b, a)

ScoreMax(a, b) == IF ScoreGT(b, a) THEN b ELSE a

(***************************************************************************)
(* align.py: normalize_hebrew, score_text (rapidfuzz token_set_ratio)      *)
(***************************************************************************)
\* normalize_hebrew collapses whitespace: on a sequence of words it keeps the
\* words and drops empty ones (there are none in this representation).
normalize_hebrew(text) == text

\* length of " ".join(sorted(S)) for a set S of one-letter words
JoinedLen(S) == IF S = {} THEN 0 ELSE 2 * Cardinality(S) - 1

\* rapidfuzz.fuzz.token_set_ratio(a, b) / 100 on the word sets A and B.
\* With one-letter words the two difference strings share only their blanks,
\* so their longest common subsequence is the smaller number of blanks.
token_set_ratio(A, B) ==
    LET sect == A \cap B
        dAB == A \ B
        dBA == B \ A
        ab_len == JoinedLen(dAB)
        ba_len == JoinedLen(dBA)
        sect_len == JoinedLen(sect)
        sep == IF sect_len # 0 THEN 1 ELSE 0
        sect_ab_len == sect_len + sep + ab_len
        sect_ba_len == sect_len + sep + ba_len
        lcs == Min(Cardinality(dAB) - 1, Cardinality(dBA) - 1)
        dist == ab_len + ba_len - 2 * lcs
        result == Ratio(sect_ab_len + sect_ba_len - dist, sect_ab_len + sect_ba_len)
        sect_ab_ratio == Ratio(sect_len + sect_ab_len - (sep + ab_len), sect_len + sect_ab_len)
        sect_ba_ratio == Ratio(sect_len + sect_ba_len - (sep + ba_len), sect_len + sect_ba_len)
    IN  IF A = {} \/ B = {} THEN ScoreZero
        ELSE IF sect # {} /\ (dAB = {} \/ dBA = {}) THEN ScoreOne
        ELSE IF sect_len = 0 THEN result
        ELSE ScoreMax(ScoreMax(result, sect_ab_ratio), sect_ba_ratio)

score_text(a, b) ==
    IF a = << >> \/ b = << >> THEN ScoreZero
    ELSE token_set_ratio(Range(normalize_hebrew(a)), Range(normalize_hebrew(b)))

(***************************************************************************)
(* Reading order: Line.order_hint = base + frac * 0.0001                   *)
(***************************************************************************)
HintLT(a, b) == a.base < b.base \/ (a.base = b.base /\ a.frac < b.frac)

\* sorted(ids, key=lambda lid: L[lid].order_hint): a stable insertion sort
RECURSIVE InsertByHint(_, _, _)
InsertByHint(sorted, lid, L) ==
    IF sorted = << >> THEN << lid >>
    ELSE IF HintLT(L[lid].order_hint, L[Head(sorted)].order_hint)
         THEN << lid >> \o sorted
         ELSE << Head(sorted) >> \o InsertByHint(Tail(sorted), lid, L)

RECURSIVE SortByHint(_, _)
SortByHint(ids, L) ==
    IF ids = << >> THEN << >>
    ELSE InsertByHint(SortByHint(SubSeq(ids, 1, Len(ids) - 1), L), ids[Len(ids)], L)

\* list(dict.fromkeys(ids)): the first occurrence of every id, in order
RECURSIVE Dedup(_)
Dedup(ids) ==
    IF ids = << >> THEN << >>
    ELSE LET front == Dedup(SubSeq(ids, 1, Len(ids) - 1))
             x == ids[Len(ids)]
         IN  IF x \in Range(front) THEN front ELSE Append(front, x)

\* " ".join(texts of the lines ids[from..to])
RECURSIVE ConcatTexts(_, _, _, _)
ConcatTexts(ids, from, to, L) ==
    IF from > to THEN << >>
    ELSE L[ids[from]].vlm_text \o ConcatTexts(ids, from + 1, to, L)

(***************************************************************************)
(* models.py: records                                                      *)
(***************************************************************************)
BBox(x, y, w, h) == [x |-> x, y |-> y, w |-> w, h |-> h]

\* tess_layout._order_hint: y * 1_000_000 + x
OrderHintK == 1000000
order_hint_of(b) == [base |-> b.y * OrderHintK + b.x, frac |-> 0]

Line(bid, bb, hint, span_end) ==
    [block_id |-> bid, bbox |-> bb, order_hint |-> hint, vlm_text |-> << >>,
     is_span_end |-> span_end, rashi_tess_text |-> << >>]

Block(bb, lids) ==
    [bbox |-> bb, line_ids |-> lids, font |-> None,
     assigned_stream_id |-> None, assign_score |-> << >>]

Stream(sid, refs, texts) == [stream_id |-> sid, seg_refs |-> refs, seg_texts |-> texts]

SegmentSpan(sid, ref, start, end, sc, fl) ==
    [stream_id |-> sid, seg_ref |-> ref, start_line_id |-> start, end_line_id |-> end,
     end_cut_x |-> << >>, score |-> sc, flags |-> fl]

HasFlag(sp, f) == f \in Range(sp.flags)

\* the keys of a dict, in iteration order
RECURSIVE SetToSeq(_)
SetToSeq(S) ==
    IF S = {} THEN << >>
    ELSE LET m == CHOOSE x \in S : \A y \in S : x <= y
         IN  << m >> \o SetToSeq(S \ {m})

Keys(d) == SetToSeq(DOMAIN d)

StreamIds(ss) == [i \in 1..Len(ss) |-> ss[i].stream_id]

(***************************************************************************)
(* align.py: align_segments_to_lines_for_stream (lexical strategy)         *)
(***************************************************************************)
LexWindow == 10
EmbWindow == 15
LexMinScore == Ratio(1, 5)      \* 0.20
EmbMinScore == Ratio(3, 10)     \* 0.30

\* for q in range(p, min(len(ordered), p + window)), positions counted from 1
CandidateEnds(p, n, window) == p..Min(n, p + window - 1)

\* ScanBest keeping the last of several candidates of equal score
RECURSIVE ScanBestLastTie(_, _, _, _, _)
ScanBestLastTie(scores, q, hi, best_q, best_sc) ==
    IF q > hi THEN [q |-> best_q, sc |-> best_sc]
    ELSE IF ScoreGE(scores[q], best_sc)
         THEN ScanBestLastTie(scores, q + 1, hi, q, scores[q])
         ELSE ScanBestLastTie(scores, q + 1, hi, best_q, best_sc)

\* the scan `if sc > best_sc: best_sc, best_q = sc, q`; q = 0 stands for None
RECURSIVE ScanBest(_, _, _, _, _)
ScanBest(scores, q, hi, best_q, best_sc) ==
    IF q > hi THEN [q |-> best_q, sc |-> best_sc]
    ELSE IF ScoreGT(scores[q], best_sc)
         THEN ScanBest(scores, q + 1, hi, q, scores[q])
         ELSE ScanBest(scores, q + 1, hi, best_q, best_sc)

BestOf(scores, p, n, window) ==
    ScanBest(scores, p, Min(n, p + window - 1), 0, ScoreMinusOne)

\* score=best_sc if best_sc >= 0 else None
FailedScore(sc) == IF sc.num >= 0 THEN << sc >> ELSE << >>

NumSegments(stream) == Min(Len(stream.seg_refs), Len(stream.seg_texts))

LexCandidates(stream, ordered, L, p, i, window) ==
    [q \in CandidateEnds(p, Len(ordered), window) |->
        score_text(ConcatTexts(ordered, p, q, L), normalize_hebrew(stream.seg_texts[i]))]

\* LexIteration with the cursor moved past the matched end line (p = best_q + 1)
LexIterationNoSharing(stream, ordered, L, p, i, window, min_score) ==
    LET best == BestOf(LexCandidates(stream, ordered, L, p, i, window),
                       p, Len(ordered), window)
    IN  IF best.q = 0 \/ ScoreLT(best.sc, min_score)
        THEN [ok |-> FALSE,
              span |-> SegmentSpan(stream.stream_id, stream.seg_refs[i], ordered[p],
                                   ordered[p], FailedScore(best.sc), << "align_failed" >>),
              p |-> Min(p + 1, Len(ordered) + 1)]
        ELSE [ok |-> TRUE,
              span |-> SegmentSpan(stream.stream_id, stream.seg_refs[i], ordered[p],
                                   ordered[best.q], << best.sc >>, << >>),
              p |-> best.q + 1]

\* LexIteration with the cursor sent back to the first line after a failed match
LexIterationRewind(stream, ordered, L, p, i, window, min_score) ==
    LET best == BestOf(LexCandidates(stream, ordered, L, p, i, window),
                       p, Len(ordered), window)
    IN  IF best.q = 0 \/ ScoreLT(best.sc, min_score)
        THEN [ok |-> FALSE,
              span |-> SegmentSpan(stream.stream_id, stream.seg_refs[i], ordered[p],
                                   ordered[p], FailedScore(best.sc), << "align_failed" >>),
              p |-> 1]
        ELSE [ok |-> TRUE,
              span |-> SegmentSpan(stream.stream_id, stream.seg_refs[i], ordered[p],
                                   ordered[best.q], << best.sc >>, << >>),
              p |-> best.q]

\* one iteration of the loop body, from the scores of its candidates: the span
\* appended and the next cursor
LexIterationOn(stream, ordered, cands, p, i, window, min_score) ==
    LET best == BestOf(cands, p, Len(ordered), window)
    IN  IF best.q = 0 \/ ScoreLT(best.sc, min_score)
        THEN [ok |-> FALSE,
              span |-> SegmentSpan(stream.stream_id, stream.seg_refs[i], ordered[p],
                                   ordered[p], FailedScore(best.sc), << "align_failed" >>),
              p |-> Min(p + 1, Len(ordered) + 1)]
        ELSE [ok |-> TRUE,
              span |-> SegmentSpan(stream.stream_id, stream.seg_refs[i], ordered[p],
                                   ordered[best.q], << best.sc >>, << >>),
              p |-> best.q]

LexIteration(stream, ordered, L, p, i, window, min_score) ==
    LexIterationOn(stream, ordered, LexCandidates(stream, ordered, L, p, i, window), p, i,
                   window, min_score)

RECURSIVE LexLoop(_, _, _, _, _, _, _, _)
LexLoop(stream, ordered, L, p, i, window, min_score, spans) ==
    IF i > NumSegments(stream) \/ p > Len(ordered) THEN spans
    ELSE LET it == LexIteration(stream, ordered, L, p, i, window, min_score)
         IN  LexLoop(stream, ordered, L, it.p, i + 1, window, min_score,
                     Append(spans, it.span))

OrderedLines(line_ids, L) == SortByHint(Dedup(line_ids), L)

align_segments_to_lines_for_stream(stream, line_ids, L, window, min_score) ==
    IF stream.seg_refs = << >> \/ line_ids = << >> THEN << >>
    ELSE LexLoop(stream, OrderedLines(line_ids, L), L, 1, 1, window, min_score, << >>)

(***************************************************************************)
(* embeddings.py: cosine_similarity; align.py: embedding strategy          *)
(***************************************************************************)
Dot(a, b) == a[1] * b[1] + a[2] * b[2]

cosine_similarity(a, b) ==
    IF Dot(a, a) <= 0 \/ Dot(b, b) <= 0 THEN ScoreZero
    ELSE Score(Dot(a, b), Dot(a, a) * Dot(b, b))

\* sum of line_emb[p..q]; the mean differs from it by the factor 1/n, which
\* the cosine cancels
RECURSIVE SumEmb(_, _, _)
SumEmb(line_emb, p, q) ==
    IF p > q THEN << 0, 0 >>
    ELSE LET r == SumEmb(line_emb, p + 1, q)
         IN  << line_emb[p][1] + r[1], line_emb[p][2] + r[2] >>

EmbCandidates(line_emb, seg_emb, n, p, i, window) ==
    [q \in CandidateEnds(p, n, window) |->
        cosine_similarity(SumEmb(line_emb, p, q), seg_emb[i])]

\* EmbIterationOn with the cursor moved past the matched end line
EmbIterationOnNoSharing(stream, ordered, cands, p, i, window, min_score) ==
    LET best == BestOf(cands, p, Len(ordered), window)
    IN  IF best.q = 0 \/ ScoreLT(best.sc, min_score)
        THEN [ok |-> FALSE,
              span |-> SegmentSpan(stream.stream_id, stream.seg_refs[i], ordered[p],
                                   ordered[p], FailedScore(best.sc),
                                   << "align_embed_failed" >>),
              p |-> Min(p + 1, Len(ordered) + 1)]
        ELSE [ok |-> TRUE,
              span |-> SegmentSpan(stream.stream_id, stream.seg_refs[i], ordered[p],
                                   ordered[best.q], << best.sc >>, << "align_embed" >>),
              p |-> best.q + 1]

\* one iteration of the loop body of the embedding strategy, from the scores
\* of its candidates
EmbIterationOn(stream, ordered, cands, p, i, window, min_score) ==
    LET best == BestOf(cands, p, Len(ordered), window)
    IN  IF best.q = 0 \/ ScoreLT(best.sc, min_score)
        THEN [ok |-> FALSE,
              span |-> SegmentSpan(stream.stream_id, stream.seg_refs[i], ordered[p],
                                   ordered[p], FailedScore(best.sc),
                                   << "align_embed_failed" >>),
              p |-> Min(p + 1, Len(ordered) + 1)]
        ELSE [ok |-> TRUE,
              span |-> SegmentSpan(stream.stream_id, stream.seg_refs[i], ordered[p],
                                   ordered[best.q], << best.sc >>, << "align_embed" >>),
              p |-> best.q]

EmbIteration(stream, ordered, line_emb, seg_emb, p, i, window, min_score) ==
    EmbIterationOn(stream, ordered,
                   EmbCandidates(line_emb, seg_emb, Len(ordered), p, i, window), p, i,
                   window, min_score)

RECURSIVE EmbLoop(_, _, _, _, _, _, _, _, _)
EmbLoop(stream, ordered, line_emb, seg_emb, p, i, window, min_score, spans) ==
    IF i > NumSegments(stream) \/ p > Len(ordered) THEN spans
    ELSE LET it == EmbIteration(stream, ordered, line_emb, seg_emb, p, i, window, min_score)
         IN  EmbLoop(stream, ordered, line_emb, seg_emb, it.p, i + 1, window, min_score,
                     Append(spans, it.span))

\* line_emb[k] is the embedding returned for the k-th ordered line, seg_emb[i]
\* the one returned for the i-th segment text
align_segments_to_lines_for_stream_embeddings(stream, line_ids, L, line_emb, seg_emb, window, min_score) ==
    IF stream.seg_refs = << >> \/ line_ids = << >> THEN << >>
    ELSE EmbLoop(stream, OrderedLines(line_ids, L), line_emb, seg_emb, 1, 1, window,
                 min_score, << >>)

(***************************************************************************)
(* Values shared by the specifications                                     *)
(***************************************************************************)
PageW == 100
PageH == 100
RowH == 10

AlIdle == [mode |-> "none", ordered |-> << >>, p |-> 0, i |-> 0, spans |-> << >>,
           line_emb |-> << >>, seg_emb |-> << >>]

GateIdle ==
    /\ unknown_block_ids = << >>
    /\ unassigned_stream_ids = << >>
    /\ boundary_cut_failures = << >>
    /\ validation_flags = << >>
    /\ needs_human_review = FALSE

\* no remote model service is being called
CallIdle == [kind |-> "none", max |-> 0, answers |-> << >>, attempt |-> 0,
             waits |-> << >>, status |-> "idle"]

OutputIdle ==
    /\ call = CallIdle
    /\ commentary_spans = << >>
    /\ page_bboxes = << >>
    /\ pages_db = << >>
    /\ sessions_db = << >>

\* no word-level OCR is consulted
OcrNone == [colon_xs |-> << >>, cut_words |-> << >>]

EmbNone == << >>

Refs(m) == [i \in 1..m |-> i]

SeqsUpTo(S, lo, hi) == UNION { [1..n -> S] : n \in lo..hi }

(***************************************************************************)
(* SpecAlign: one call of the segment aligner on one stream, one loop      *)
(* iteration per step                                                      *)
(***************************************************************************)
MaxAlignLines == 3
MaxSegs == 3

LineTexts == { << >>, << "a" >>, << "a", "b" >> }
SegTexts == { << "a" >>, << "a", "c" >>, << "c" >> }
ScenarioTexts == { << "a" >>, << "b" >>, << "c" >>, << "a", "b" >> }
EmbVecs == { << 1, 0 >>, << 0, 1 >>, << -1, 0 >> }

\* n lines of one block in rows of height RowH; `down` tells whether the ids
\* ascend or descend with the reading order
AlignLines(texts, down) ==
    [k \in 1..Len(texts) |->
        LET row == IF down THEN k ELSE Len(texts) + 1 - k
            bb == BBox(10, RowH * row, 50, RowH)
        IN  [Line(1, bb, order_hint_of(bb), FALSE) EXCEPT !.vlm_text = texts[k]]]

AlignBlocks(n) ==
    [b \in {1} |-> [Block(BBox(10, RowH, 50, RowH * n), Refs(n))
                        EXCEPT !.font = "hebrew", !.assigned_stream_id = "s0"]]

\* stream_line_ids of node_align_segments
StreamLineIds(B, sid) ==
    LET RECURSIVE Collect(_)
        Collect(bids) ==
            IF bids = << >> THEN << >>
            ELSE (IF B[Head(bids)].assigned_stream_id = sid
                  THEN B[Head(bids)].line_ids ELSE << >>) \o Collect(Tail(bids))
    IN  Collect(Keys(B))

AlignEntry(mode, line_emb, seg_emb) ==
    [mode |-> mode, ordered |-> OrderedLines(StreamLineIds(blocks, "s0"), lines),
     p |-> 1, i |-> 1, spans |-> << >>, line_emb |-> line_emb, seg_emb |-> seg_emb]

InitAlignCommon ==
    /\ pc = "align"
    /\ page = [w |-> PageW, h |-> PageH]
    /\ segment_spans = << >>
    /\ GateIdle
    /\ OutputIdle
    /\ ocr = OcrNone
    /\ embedding = EmbNone

InitAlignLexical ==
    /\ \E texts \in SeqsUpTo(LineTexts, 1, MaxAlignLines), down \in BOOLEAN :
          /\ lines = AlignLines(texts, down)
          /\ blocks = AlignBlocks(Len(texts))
    /\ \E segs \in SeqsUpTo(SegTexts, 0, MaxSegs) :
          streams = << Stream("s0", Refs(Len(segs)), segs) >>
    /\ use_embeddings = FALSE
    /\ al = AlignEntry("lexical", << >>, << >>)
    /\ InitAlignCommon

InitAlignEmbedding ==
    /\ \E n \in 1..MaxAlignLines, down \in BOOLEAN :
          /\ lines = AlignLines([k \in 1..n |-> << "a" >>], down)
          /\ blocks = AlignBlocks(n)
    /\ \E m \in 0..MaxSegs :
          streams = << Stream("s0", Refs(m), [i \in 1..m |-> << "a" >>]) >>
    /\ use_embeddings = TRUE
    /\ \E le \in [1..Len(blocks[1].line_ids) -> EmbVecs],
          se \in [1..Len(streams[1].seg_refs) -> EmbVecs] :
          al = AlignEntry("embedding", le, se)
    /\ InitAlignCommon

\* 3 segments over 5 lines whose texts are the concatenations of line 1,
\* lines 2-3 and lines 4-5
IsScenario35 ==
    /\ Len(streams) = 1
    /\ DOMAIN lines = 1..5
    /\ \A k \in 1..5 : lines[k].vlm_text # << >>
    /\ al.mode = "lexical"
    /\ al.ordered = << 1, 2, 3, 4, 5 >>
    /\ streams[1].seg_refs = << 1, 2, 3 >>
    /\ streams[1].seg_texts = << lines[1].vlm_text,
                                 lines[2].vlm_text \o lines[3].vlm_text,
                                 lines[4].vlm_text \o lines[5].vlm_text >>

InitAlignScenario ==
    /\ \E texts \in [1..5 -> ScenarioTexts] :
          /\ lines = AlignLines(texts, TRUE)
          /\ blocks = AlignBlocks(5)
          /\ streams = << Stream("s0", Refs(3),
                                 << texts[1], texts[2] \o texts[3], texts[4] \o texts[5] >>) >>
    /\ use_embeddings = FALSE
    /\ al = AlignEntry("lexical", << >>, << >>)
    /\ InitAlignCommon

\* one line more than the window: line `hot` reads "a" (embedding (1,0)), every
\* other line reads "b" (embedding (0,1))
InitAlignWindow ==
    /\ \E lexical \in BOOLEAN :
         LET n == (IF lexical THEN LexWindow ELSE EmbWindow) + 1 IN
         \E hot \in 1..n, m \in 1..2 :
            /\ lines = AlignLines([k \in 1..n |-> IF k = hot THEN << "a" >> ELSE << "b" >>],
                                  TRUE)
            /\ blocks = AlignBlocks(n)
            /\ use_embeddings = ~lexical
            /\ IF lexical
               THEN /\ \E segs \in [1..m -> { << "a" >>, << "c" >> }] :
                          streams = << Stream("s0", Refs(m), segs) >>
                    /\ al = AlignEntry("lexical", << >>, << >>)
               ELSE /\ streams = << Stream("s0", Refs(m), [i \in 1..m |-> << "a" >>]) >>
                    /\ \E se \in [1..m -> { << 1, 0 >>, << 0, 1 >> }] :
                          al = AlignEntry("embedding",
                                          [k \in 1..n |-> IF k = hot THEN << 1, 0 >>
                                                          ELSE << 0, 1 >>], se)
    /\ InitAlignCommon

InitAlign == InitAlignLexical \/ InitAlignEmbedding \/ InitAlignScenario \/ InitAlignWindow

\* AlignRunning with the loop left one line before the end of the lines
AlignRunningStopsEarly ==
    /\ pc = "align"
    /\ streams[1].seg_refs # << >>
    /\ al.ordered # << >>
    /\ al.i <= NumSegments(streams[1])
    /\ al.p < Len(al.ordered)

AlignRunning ==
    /\ pc = "align"
    /\ streams[1].seg_refs # << >>
    /\ al.ordered # << >>
    /\ al.i <= NumSegments(streams[1])
    /\ al.p <= Len(al.ordered)

AlignIteration ==
    IF al.mode = "embedding"
    THEN EmbIteration(streams[1], al.ordered, al.line_emb, al.seg_emb, al.p, al.i,
                      EmbWindow, EmbMinScore)
    ELSE LexIteration(streams[1], al.ordered, lines, al.p, al.i, LexWindow, LexMinScore)

AlignFrame ==
    UNCHANGED << page, blocks, lines, streams, use_embeddings, unknown_block_ids,
                 unassigned_stream_ids, boundary_cut_failures, validation_flags,
                 needs_human_review, commentary_spans, page_bboxes, pages_db, sessions_db, ocr,
                 embedding, call >>

\* the branch `if best_q is None or best_sc < min_score`
AlignSegmentFailed ==
    /\ AlignRunning
    /\ ~AlignIteration.ok
    /\ al' = [al EXCEPT !.spans = Append(@, AlignIteration.span),
                        !.p = AlignIteration.p, !.i = @ + 1]
    /\ UNCHANGED << pc, segment_spans >>
    /\ AlignFrame

\* the success branch, `p = best_q`
AlignSegmentMatched ==
    /\ AlignRunning
    /\ AlignIteration.ok
    /\ al' = [al EXCEPT !.spans = Append(@, AlignIteration.span),
                        !.p = AlignIteration.p, !.i = @ + 1]
    /\ UNCHANGED << pc, segment_spans >>
    /\ AlignFrame

\* `return spans` (early return, break, or end of the segments)
AlignReturn ==
    /\ pc = "align"
    /\ ~AlignRunning
    /\ pc' = "aligned"
    /\ segment_spans' = al.spans
    /\ UNCHANGED al
    /\ AlignFrame

NextAlign == AlignSegmentFailed \/ AlignSegmentMatched \/ AlignReturn

SpecAlign == InitAlign /\ [][NextAlign]_vars

\* the loop run step by step returns what the function returns
AlignStepsAgree ==
    pc = "aligned" =>
        segment_spans =
            IF al.mode = "embedding"
            THEN align_segments_to_lines_for_stream_embeddings(
                     streams[1], StreamLineIds(blocks, "s0"), lines, al.line_emb,
                     al.seg_emb, EmbWindow, EmbMinScore)
            ELSE align_segments_to_lines_for_stream(
                     streams[1], StreamLineIds(blocks, "s0"), lines, LexWindow, LexMinScore)

\* position of a line in the ordered line sequence of the aligner call
PosIn(ordered, lid) == CHOOSE k \in 1..Len(ordered) : ordered[k] = lid

SpanIs(sp, start, end) == sp.start_line_id = start /\ sp.end_line_id = end

PerfectSpan(sp) ==
    /\ Len(sp.score) = 1
    /\ ScoreEQ(sp.score[1], ScoreOne)
    /\ ~HasFlag(sp, "align_failed")
    /\ ~HasFlag(sp, "align_embed_failed")

WordsOf(k) == Range(lines[k].vlm_text)

\* line 1 shares no word with lines 2-3, line 3 none with lines 1-2 and 4-5,
\* line 5 none with lines 3-4
ScenarioWordsApart ==
    /\ WordsOf(1) \cap (WordsOf(2) \cup WordsOf(3)) = {}
    /\ WordsOf(3) \cap (WordsOf(1) \cup WordsOf(2) \cup WordsOf(4) \cup WordsOf(5)) = {}
    /\ WordsOf(5) \cap (WordsOf(3) \cup WordsOf(4)) = {}

\* C3 as stated: in the 3-segment / 5-line scenario the aligner returns exactly
\* the spans [1,1], [2,3], [4,5], each with score 1.0 and no failure flag.
C3_Original ==
    (pc = "aligned" /\ IsScenario35) =>
        /\ Len(segment_spans) = 3
        /\ SpanIs(segment_spans[1], 1, 1)
        /\ SpanIs(segment_spans[2], 2, 3)
        /\ SpanIs(segment_spans[3], 4, 5)
        /\ \A i \in 1..3 : PerfectSpan(segment_spans[i])

\* C3 amended: in the scenario (lines with non-empty text) the aligner returns
\* exactly three spans, each with score 1.0 and no failure flag; the first is
\* [1,1] and every later span starts at the line where its predecessor ended
\* (boundary sharing), the second ending no later than line 3; when the words
\* of the lines are apart (ScenarioWordsApart) the spans are [1,1], [1,3], [3,5].
C3_SharedBoundarySpans ==
    (pc = "aligned" /\ IsScenario35) =>
        /\ Len(segment_spans) = 3
        /\ \A i \in 1..3 : PerfectSpan(segment_spans[i]) /\ segment_spans[i].seg_ref = i
        /\ SpanIs(segment_spans[1], 1, 1)
        /\ \A i \in 1..2 : segment_spans[i + 1].start_line_id = segment_spans[i].end_line_id
        /\ segment_spans[2].end_line_id <= 3
        /\ segment_spans[2].end_line_id <= segment_spans[3].end_line_id
        /\ ScenarioWordsApart =>
              /\ SpanIs(segment_spans[2], 1, 3)
              /\ SpanIs(segment_spans[3], 3, 5)

C3_Witness ==
    /\ pc = "aligned"
    /\ IsScenario35
    /\ ScenarioWordsApart
    /\ Len(segment_spans) = 3
    /\ SpanIs(segment_spans[3], 3, 5)

\* C7: within one aligner call (either strategy) the start positions of
\* consecutive spans in the ordered line sequence never decrease.
C7_StartsNonDecreasing ==
    \A i \in 1..(Len(al.spans) - 1) :
        PosIn(al.ordered, al.spans[i].start_line_id)
            <= PosIn(al.ordered, al.spans[i + 1].start_line_id)

C7_Witness ==
    /\ pc = "aligned"
    /\ al.mode = "embedding"
    /\ Len(segment_spans) >= 2
    /\ HasFlag(segment_spans[1], "align_embed_failed")
    /\ PosIn(al.ordered, segment_spans[1].start_line_id)
           < PosIn(al.ordered, segment_spans[2].start_line_id)
    /\ al.ordered[1] > al.ordered[2]

\* the candidate scores of the iteration about to run, by end position
AlignCandidates ==
    IF al.mode = "embedding"
    THEN EmbCandidates(al.line_emb, al.seg_emb, Len(al.ordered), al.p, al.i, EmbWindow)
    ELSE LexCandidates(streams[1], al.ordered, lines, al.p, al.i, LexWindow)

AlignMinScore == IF al.mode = "embedding" THEN EmbMinScore ELSE LexMinScore

AlignWindow == IF al.mode = "embedding" THEN EmbWindow ELSE LexWindow

FailureFlag == IF al.mode = "embedding" THEN "align_embed_failed" ELSE "align_failed"

\* every candidate scores below the minimum
BestBelowMin ==
    \A q \in DOMAIN AlignCandidates : ScoreLT(AlignCandidates[q], AlignMinScore)

\* a step that handles one segment
SegmentStep == AlignRunning /\ al'.i = al.i + 1

EmittedSpan == al'.spans[Len(al'.spans)]

SpanFailed(sp) == HasFlag(sp, "align_failed") \/ HasFlag(sp, "align_embed_failed")

\* C18: when every candidate at cursor p scores below the minimum, the span
\* emitted covers line p alone, carries the failure flag of the strategy, and
\* the cursor moves to p + 1.
C18_FailureCoversCursorLine ==
    [][ (SegmentStep /\ BestBelowMin) =>
            /\ Len(al'.spans) = Len(al.spans) + 1
            /\ SpanIs(EmittedSpan, al.ordered[al.p], al.ordered[al.p])
            /\ HasFlag(EmittedSpan, FailureFlag)
            /\ al'.p = al.p + 1 ]_vars

\* a failed segment whose best score is positive, followed by a span that
\* starts at the next line
C18_Witness ==
    /\ pc = "aligned"
    /\ Len(segment_spans) >= 2
    /\ SpanFailed(segment_spans[1])
    /\ Len(segment_spans[1].score) = 1
    /\ ScoreGT(segment_spans[1].score[1], ScoreZero)
    /\ segment_spans[2].start_line_id = al.ordered[2]

\* C19: when some candidate at cursor p reaches the minimum, the span emitted
\* starts at line p and ends at a line q >= p, has a score >= the minimum and
\* no failure flag, and the cursor moves to q, so that the next span of the
\* stream starts at line q itself.
C19_SuccessSharesBoundary ==
    [][ (SegmentStep /\ ~BestBelowMin) =>
            /\ Len(al'.spans) = Len(al.spans) + 1
            /\ EmittedSpan.start_line_id = al.ordered[al.p]
            /\ al'.p \in al.p..Len(al.ordered)
            /\ EmittedSpan.end_line_id = al.ordered[al'.p]
            /\ Len(EmittedSpan.score) = 1
            /\ ScoreGE(EmittedSpan.score[1], AlignMinScore)
            /\ ~SpanFailed(EmittedSpan)
            /\ \A i \in 1..(Len(al.spans) - 1) :
                  ~SpanFailed(al.spans[i]) =>
                      al.spans[i + 1].start_line_id = al.spans[i].end_line_id ]_vars

\* two matched spans in a row, the first of more than one line
C19_Witness ==
    /\ pc = "aligned"
    /\ Len(segment_spans) >= 2
    /\ ~SpanFailed(segment_spans[1])
    /\ ~SpanFailed(segment_spans[2])
    /\ segment_spans[1].start_line_id # segment_spans[1].end_line_id
    /\ segment_spans[2].start_line_id = segment_spans[1].end_line_id

\* C20: a matched span ends at a position q of p..min(p + window, n) - 1 whose
\* score is the maximum over exactly these positions, and at the smallest
\* such q; every span emitted has start <= end < start + window and names
\* lines of the input group.
C20_BestEndInWindow ==
    [][ SegmentStep =>
            LET n == Len(al.ordered)
                ends == { q \in 1..n : al.p <= q /\ q < Min(al.p + AlignWindow, n + 1) }
                start == PosIn(al.ordered, EmittedSpan.start_line_id)
                end == PosIn(al.ordered, EmittedSpan.end_line_id)
            IN  /\ DOMAIN AlignCandidates = ends
                /\ { EmittedSpan.start_line_id, EmittedSpan.end_line_id }
                       \subseteq Range(StreamLineIds(blocks, "s0"))
                /\ start <= end
                /\ end < start + AlignWindow
                /\ ~BestBelowMin =>
                      /\ end \in ends
                      /\ \A q \in ends : ScoreGE(AlignCandidates[end], AlignCandidates[q])
                      /\ \A q \in ends :
                            q < end => ScoreGT(AlignCandidates[end], AlignCandidates[q]) ]_vars

\* more lines than the window: a matched span that ends at the last line the
\* window allows
C20_Witness ==
    /\ pc = "aligned"
    /\ Len(al.ordered) > AlignWindow
    /\ Len(segment_spans) >= 2
    /\ ~SpanFailed(segment_spans[2])
    /\ PosIn(al.ordered, segment_spans[2].end_line_id)
           = PosIn(al.ordered, segment_spans[2].start_line_id) + AlignWindow - 1

MaxLiveLines == 2
MaxLiveSegs == 3

\* aligner calls on few lines and more segments than lines, either strategy
InitAlignLive ==
    /\ \E lexical \in BOOLEAN :
         \E n \in 1..MaxLiveLines, m \in 0..MaxLiveSegs :
            /\ blocks = AlignBlocks(n)
            /\ use_embeddings = ~lexical
            /\ IF lexical
               THEN /\ lines = AlignLines([k \in 1..n |-> << "a" >>], TRUE)
                    /\ \E segs \in [1..m -> { << "a" >>, << "c" >> }] :
                          streams = << Stream("s0", Refs(m), segs) >>
                    /\ al = AlignEntry("lexical", << >>, << >>)
               ELSE /\ lines = AlignLines([k \in 1..n |-> << "a" >>], TRUE)
                    /\ streams = << Stream("s0", Refs(m), [i \in 1..m |-> << "a" >>]) >>
                    /\ \E se \in [1..m -> { << 1, 0 >>, << -1, 0 >> }] :
                          al = AlignEntry("embedding", [k \in 1..n |-> << 1, 0 >>], se)
    /\ InitAlignCommon

\* the aligner call under weak fairness: a loop iteration or the return that
\* can be taken is taken
SpecAlignLive == InitAlignLive /\ [][NextAlign]_vars /\ WF_vars(NextAlign)

\* C21: the aligner call returns; the spans emitted so far are one per segment
\* visited, in segment order, for a prefix of the stream's segments; once the
\* cursor is past the last line no span is added, and while it is not, the
\* segment visited gets exactly one span.
C21_OneSpanPerVisitedSegment ==
    /\ <>(pc = "aligned")
    /\ [](/\ Len(al.spans) = al.i - 1
          /\ Len(al.spans) <= NumSegments(streams[1])
          /\ \A k \in 1..Len(al.spans) : al.spans[k].seg_ref = streams[1].seg_refs[k]
          /\ pc = "aligned" =>
                /\ segment_spans = al.spans
                /\ Len(segment_spans) < NumSegments(streams[1]) =>
                      al.p > Len(al.ordered))
    /\ [][ /\ al.p > Len(al.ordered) => al'.spans = al.spans
           /\ (pc = "align" /\ al.p <= Len(al.ordered) /\ al.i <= NumSegments(streams[1])) =>
                 /\ Len(al'.spans) = Len(al.spans) + 1
                 /\ al'.i = al.i + 1 ]_vars

\* a call that returned with spans for a proper prefix of the segments, the
\* cursor having passed the last line
C21_Witness ==
    /\ pc = "aligned"
    /\ Len(segment_spans) >= 2
    /\ Len(segment_spans) < NumSegments(streams[1])
    /\ al.p = Len(al.ordered) + 1

(***************************************************************************)
(* align.py: the lexical and the embedding strategy side by side, on the   *)
(* same ordered lines and segments, with the same candidate scores, window *)
(* and minimum score                                                       *)
(***************************************************************************)
MaxTwinLines == 2
MaxTwinSegs == 2

\* the scores a candidate can have: never above the initial best_sc = -1.0,
\* between the two default minimum scores, a perfect match
TwinScores == { ScoreMinusOne, Ratio(1, 4), Ratio(1, 1) }

TwinCursor == [p |-> 1, i |-> 1, spans |-> << >>]

InitTwin ==
    /\ \E n \in 1..MaxTwinLines, m \in 1..MaxTwinSegs :
          /\ lines = AlignLines([k \in 1..n |-> << "a" >>], TRUE)
          /\ blocks = AlignBlocks(n)
          /\ streams = << Stream("s0", Refs(m), [i \in 1..m |-> << "a" >>]) >>
          /\ \E scores \in [1..m -> [1..n -> TwinScores]], window \in {1, 2},
                min_score \in {LexMinScore, EmbMinScore} :
                /\ use_embeddings = (min_score = EmbMinScore)
                /\ al = [mode |-> "twin",
                         ordered |-> OrderedLines(StreamLineIds(blocks, "s0"), lines),
                         scores |-> scores, window |-> window, min_score |-> min_score,
                         lex |-> TwinCursor, emb |-> TwinCursor]
    /\ InitAlignCommon

\* `while i < len(stream.seg_refs) and p < len(ordered)` of either strategy
TwinRunning(cur) ==
    /\ streams[1].seg_refs # << >>
    /\ al.ordered # << >>
    /\ cur.i <= NumSegments(streams[1])
    /\ cur.p <= Len(al.ordered)

\* the scores of the candidate ends p..min(n, p+window-1) of segment i
TwinCandidates(cur) ==
    [q \in CandidateEnds(cur.p, Len(al.ordered), al.window) |-> al.scores[cur.i][q]]

TwinAdvance(cur, it) == [p |-> it.p, i |-> cur.i + 1, spans |-> Append(cur.spans, it.span)]

\* one loop iteration of each strategy that is still inside its loop
TwinIteration ==
    /\ pc = "align"
    /\ TwinRunning(al.lex) \/ TwinRunning(al.emb)
    /\ al' = [al EXCEPT
                !.lex = IF TwinRunning(al.lex)
                        THEN TwinAdvance(al.lex,
                                 LexIterationOn(streams[1], al.ordered, TwinCandidates(al.lex),
                                                al.lex.p, al.lex.i, al.window, al.min_score))
                        ELSE @,
                !.emb = IF TwinRunning(al.emb)
                        THEN TwinAdvance(al.emb,
                                 EmbIterationOn(streams[1], al.ordered, TwinCandidates(al.emb),
                                                al.emb.p, al.emb.i, al.window, al.min_score))
                        ELSE @]
    /\ UNCHANGED << pc, segment_spans >>
    /\ AlignFrame

\* `return spans` of both strategies; node_align_segments keeps the spans of
\* the strategy that use_embeddings selects
TwinReturn ==
    /\ pc = "align"
    /\ ~TwinRunning(al.lex)
    /\ ~TwinRunning(al.emb)
    /\ pc' = "aligned"
    /\ segment_spans' = IF use_embeddings THEN al.emb.spans ELSE al.lex.spans
    /\ UNCHANGED al
    /\ AlignFrame

NextTwin == TwinIteration \/ TwinReturn

SpecTwin == InitTwin /\ [][NextTwin]_vars

\* two spans that differ in the names of their flags only
SameSpanUpToFlags(a, b) ==
    /\ a.stream_id = b.stream_id
    /\ a.seg_ref = b.seg_ref
    /\ a.start_line_id = b.start_line_id
    /\ a.end_line_id = b.end_line_id
    /\ a.score = b.score
    /\ HasFlag(a, "align_failed") <=> HasFlag(b, "align_embed_failed")
    /\ ~HasFlag(a, "align_embed_failed") /\ ~HasFlag(b, "align_failed")

\* C22: run side by side on the same ordered lines and segments, with the same
\* candidate scores, window and minimum score, the lexical and the embedding
\* strategy keep the same line cursor and segment index and produce the same
\* sequence of spans (segment ref, start line, end line, score, success or
\* failure); the spans differ in the names of their flags only.
C22_SameStateMachine ==
    /\ al.lex.p = al.emb.p
    /\ al.lex.i = al.emb.i
    /\ Len(al.lex.spans) = Len(al.emb.spans)
    /\ \A k \in 1..Min(Len(al.lex.spans), Len(al.emb.spans)) :
          SameSpanUpToFlags(al.lex.spans[k], al.emb.spans[k])

\* both strategies returned after a failure on the first segment and a match
\* of the second over shared scores, the flags of the match named differently
C22_Witness ==
    /\ pc = "aligned"
    /\ Len(al.lex.spans) = 2
    /\ Len(al.emb.spans) = 2
    /\ SpanFailed(al.lex.spans[1])
    /\ SpanFailed(al.emb.spans[1])
    /\ ~SpanFailed(al.emb.spans[2])
    /\ al.lex.spans[2].flags # al.emb.spans[2].flags

(***************************************************************************)
(* align.py: assign_blocks_to_streams                                      *)
(***************************************************************************)
AssignThresh == Ratio(1, 4)     \* thresh = 0.25
BlockPrefixLines == 10
StreamPrefixSegs == 3

RECURSIVE JoinTexts(_)
JoinTexts(texts) ==
    IF texts = << >> THEN << >> ELSE Head(texts) \o JoinTexts(Tail(texts))

\* stream_prefix[sid] = " ".join(st.seg_texts[:k])
StreamPrefix(st, prefix_segs) ==
    JoinTexts(SubSeq(st.seg_texts, 1, Min(prefix_segs, Len(st.seg_texts))))

\* block_text: the first m lines of the block in reading order, joined
BlockText(blk, L, prefix_lines) ==
    LET ids == SortByHint(blk.line_ids, L)
    IN  ConcatTexts(ids, 1, Min(prefix_lines, Len(ids)), L)

\* BestStream that lets a later stream of equal score replace the best
RECURSIVE BestStreamLastTie(_, _, _, _, _, _)
BestStreamLastTie(text, S, prefix_segs, k, best_sid, best_sc) ==
    IF k > Len(S) THEN [sid |-> best_sid, sc |-> best_sc]
    ELSE LET sc == score_text(text, StreamPrefix(S[k], prefix_segs))
         IN  IF ~ScoreLT(sc, best_sc)
             THEN BestStreamLastTie(text, S, prefix_segs, k + 1, S[k].stream_id, sc)
             ELSE BestStreamLastTie(text, S, prefix_segs, k + 1, best_sid, best_sc)

\* the scan over stream_prefix.items(): `if sc > best_sc`; sid = None if no stream
RECURSIVE BestStream(_, _, _, _, _, _)
BestStream(text, S, prefix_segs, k, best_sid, best_sc) ==
    IF k > Len(S) THEN [sid |-> best_sid, sc |-> best_sc]
    ELSE LET sc == score_text(text, StreamPrefix(S[k], prefix_segs))
         IN  IF ScoreGT(sc, best_sc)
             THEN BestStream(text, S, prefix_segs, k + 1, S[k].stream_id, sc)
             ELSE BestStream(text, S, prefix_segs, k + 1, best_sid, best_sc)

\* AssignOneBlock without the threshold test
AssignOneBlockNoThresh(blk, L, S, thresh, prefix_lines, prefix_segs) ==
    IF blk.font = "rashi"
    THEN [blk EXCEPT !.assigned_stream_id = None, !.assign_score = << >>]
    ELSE LET best == BestStream(BlockText(blk, L, prefix_lines), S, prefix_segs, 1,
                                None, ScoreMinusOne)
         IN  IF best.sid = None
             THEN [blk EXCEPT !.assigned_stream_id = None,
                              !.assign_score = FailedScore(best.sc)]
             ELSE [blk EXCEPT !.assigned_stream_id = best.sid,
                              !.assign_score = << best.sc >>]

\* AssignOneBlock without the branch for commentary-script blocks
AssignOneBlockScoresRashi(blk, L, S, thresh, prefix_lines, prefix_segs) ==
    LET best == BestStream(BlockText(blk, L, prefix_lines), S, prefix_segs, 1,
                           None, ScoreMinusOne)
    IN  IF best.sid = None \/ ScoreLT(best.sc, thresh)
        THEN [blk EXCEPT !.assigned_stream_id = None,
                         !.assign_score = FailedScore(best.sc)]
        ELSE [blk EXCEPT !.assigned_stream_id = best.sid,
                         !.assign_score = << best.sc >>]

\* the loop body for one block: the block as the loop leaves it
AssignOneBlock(blk, L, S, thresh, prefix_lines, prefix_segs) ==
    IF blk.font = "rashi"
    THEN [blk EXCEPT !.assigned_stream_id = None, !.assign_score = << >>]
    ELSE LET best == BestStream(BlockText(blk, L, prefix_lines), S, prefix_segs, 1,
                                None, ScoreMinusOne)
         IN  IF best.sid = None \/ ScoreLT(best.sc, thresh)
             THEN [blk EXCEPT !.assigned_stream_id = None,
                              !.assign_score = FailedScore(best.sc)]
             ELSE [blk EXCEPT !.assigned_stream_id = best.sid,
                              !.assign_score = << best.sc >>]

\* returns the blocks as mutated, and the pair (unknown, unassigned)
assign_blocks_to_streams(B, L, S, thresh, prefix_lines, prefix_segs) ==
    LET newB == [b \in DOMAIN B |->
                    AssignOneBlock(B[b], L, S, thresh, prefix_lines, prefix_segs)]
        IsUnknown(b) == newB[b].assigned_stream_id = None
        assigned == { newB[b].assigned_stream_id : b \in DOMAIN B } \ {None}
        NotAssigned(sid) == sid \notin assigned
    IN  [blocks |-> newB,
         unknown |-> SelectSeq(Keys(B), IsUnknown),
         unassigned |-> SelectSeq(StreamIds(S), NotAssigned)]

(***************************************************************************)
(* SpecAssign: one call of the stream assigner                             *)
(***************************************************************************)
MaxAssignBlocks == 2
MaxStreams == 2

\* what a block can hold when the assigner runs: its font and its line texts
BlockKinds ==
    { [font |-> "hebrew", texts |-> << << "a" >> >>],
      [font |-> "hebrew", texts |-> << << "b" >> >>],
      [font |-> "hebrew", texts |-> << << >> >>],
      [font |-> "hebrew", texts |-> << << "b" >>, << "a" >> >>],
      [font |-> "rashi", texts |-> << << "a" >> >>],
      [font |-> None, texts |-> << << "a", "c" >> >>] }

StreamKinds ==
    { << << "a" >> >>, << << "a" >>, << "b" >> >>, << << "c" >>, << "d" >> >> }

\* ids of the lines of block b (at most 2 per block in this family)
BlockLineIds(b, n) == [k \in 1..n |-> 2 * b - 2 + k]

LinesOfKinds(kinds) ==
    [lid \in UNION { Range(BlockLineIds(b, Len(kinds[b].texts))) : b \in DOMAIN kinds } |->
        LET b == (lid + 1) \div 2
            k == lid - (2 * b - 2)
            bb == BBox(10, RowH * lid, 50, RowH)
        IN  [Line(b, bb, order_hint_of(bb), FALSE) EXCEPT !.vlm_text = kinds[b].texts[k]]]

BlocksOfKinds(kinds) ==
    [b \in DOMAIN kinds |->
        [Block(BBox(10, RowH * (2 * b - 1), 50, RowH * Len(kinds[b].texts)),
               BlockLineIds(b, Len(kinds[b].texts)))
            EXCEPT !.font = kinds[b].font]]

StreamName(i) == IF i = 1 THEN "s0" ELSE IF i = 2 THEN "s1" ELSE IF i = 3 THEN "s2" ELSE "s3"

StreamsOfKinds(kinds) ==
    [i \in DOMAIN kinds |-> Stream(StreamName(i), Refs(Len(kinds[i])), kinds[i])]

InitAssign ==
    /\ pc = "assign_blocks"
    /\ page = [w |-> PageW, h |-> PageH]
    /\ \E kinds \in SeqsUpTo(BlockKinds, 1, MaxAssignBlocks) :
          /\ blocks = BlocksOfKinds(kinds)
          /\ lines = LinesOfKinds(kinds)
    /\ \E kinds \in SeqsUpTo(StreamKinds, 0, MaxStreams) :
          streams = StreamsOfKinds(kinds)
    /\ use_embeddings = FALSE
    /\ segment_spans = << >>
    /\ al = AlIdle
    /\ GateIdle
    /\ OutputIdle
    /\ ocr = OcrNone
    /\ embedding = EmbNone

\* graph.node_assign_blocks
AssignBlocks ==
    /\ pc = "assign_blocks"
    /\ LET r == assign_blocks_to_streams(blocks, lines, streams, AssignThresh,
                                         BlockPrefixLines, StreamPrefixSegs)
       IN  /\ blocks' = r.blocks
           /\ unknown_block_ids' = r.unknown
           /\ unassigned_stream_ids' = r.unassigned
    /\ pc' = "assigned"
    /\ UNCHANGED << page, lines, streams, use_embeddings, segment_spans,
                    boundary_cut_failures, validation_flags, needs_human_review, al,
                    commentary_spans, page_bboxes, pages_db, sessions_db, ocr,
                 embedding, call >>

NextAssign == AssignBlocks

SpecAssign == InitAssign /\ [][NextAssign]_vars

\* the largest prefix similarity of a block over all streams is below t
\* (also when there is no stream at all)
BestScoreBelow(blk, t) ==
    \A k \in 1..Len(streams) :
        ScoreLT(score_text(BlockText(blk, lines, BlockPrefixLines),
                           StreamPrefix(streams[k], StreamPrefixSegs)), t)

\* C6: after the assigner every block with an assigned stream has
\* assign_score >= thresh, and every block that is commentary script or whose
\* best score is below thresh has no assigned stream and is in the unknown list.
C6_AssignedAboveThresh ==
    pc = "assigned" =>
        \A b \in DOMAIN blocks :
            /\ blocks[b].assigned_stream_id # None =>
                  /\ Len(blocks[b].assign_score) = 1
                  /\ ScoreGE(blocks[b].assign_score[1], AssignThresh)
            /\ (blocks[b].font = "rashi" \/ BestScoreBelow(blocks[b], AssignThresh)) =>
                  /\ blocks[b].assigned_stream_id = None
                  /\ b \in Range(unknown_block_ids)

C6_Witness ==
    /\ pc = "assigned"
    /\ \E b \in DOMAIN blocks :
          /\ blocks[b].assigned_stream_id # None
          /\ ~ScoreEQ(blocks[b].assign_score[1], ScoreOne)
    /\ \E b \in DOMAIN blocks :
          /\ blocks[b].font # "rashi"
          /\ BestScoreBelow(blocks[b], AssignThresh)
          /\ streams # << >>
          /\ b \in Range(unknown_block_ids)

\* the prefix similarity of block b and the k-th stream
PrefixScore(b, k) ==
    score_text(BlockText(blocks[b], lines, BlockPrefixLines),
               StreamPrefix(streams[k], StreamPrefixSegs))

\* the streams, by position, that reach the maximum score for block b
MaxScoreStreams(b) ==
    { k \in 1..Len(streams) :
        \A j \in 1..Len(streams) : ~ScoreGT(PrefixScore(b, j), PrefixScore(b, k)) }

\* C27: when several streams reach the same maximum prefix similarity for a
\* block, the assigner assigns the block to the first of them in the iteration
\* order of the streams, provided the score is at or above thresh; and the
\* returned unassigned list holds exactly the streams no block was assigned to.
C27_FirstOfTiedStreams ==
    pc = "assigned" =>
        /\ \A b \in DOMAIN blocks :
              (blocks[b].font # "rashi" /\ MaxScoreStreams(b) # {}) =>
                  LET first == CHOOSE k \in MaxScoreStreams(b) :
                                   \A j \in MaxScoreStreams(b) : k <= j
                  IN  ScoreGE(PrefixScore(b, first), AssignThresh) =>
                          blocks[b].assigned_stream_id = streams[first].stream_id
        /\ Range(unassigned_stream_ids) =
              { streams[k].stream_id : k \in 1..Len(streams) }
                  \ { blocks[b].assigned_stream_id : b \in DOMAIN blocks }
        /\ \A i, j \in 1..Len(unassigned_stream_ids) :
              unassigned_stream_ids[i] = unassigned_stream_ids[j] => i = j

\* two streams tied at a score at or above thresh for a block that went to
\* the first one, the second one being reported unassigned
C27_Witness ==
    /\ pc = "assigned"
    /\ Len(streams) = 2
    /\ \E b \in DOMAIN blocks :
          /\ blocks[b].font # "rashi"
          /\ MaxScoreStreams(b) = { 1, 2 }
          /\ ScoreGE(PrefixScore(b, 1), AssignThresh)
          /\ blocks[b].assigned_stream_id = "s0"
    /\ unassigned_stream_ids = << "s1" >>

(***************************************************************************)
(* tess_layout.py: _filter_margin_blocks                                   *)
(***************************************************************************)
\* not (a.x + a.w <= b.x or b.x + b.w <= a.x)
bbox_intersects_vertically(a, b) == ~(a.x + a.w <= b.x \/ b.x + b.w <= a.x)

\* not (a.y + a.h <= b.y or b.y + b.h <= a.y)
bbox_intersects_horizontally(a, b) == ~(a.y + a.h <= b.y \/ b.y + b.h <= a.y)

SetMax(S) == CHOOSE m \in S : \A x \in S : x <= m

\* int(pct/100 * n) for n >= 0
IntPercent(pct, n) == (pct * n) \div 100

TopBandPct == 12
MarginXPct == 12
MarginYPct == 10
SmallAreaPerMille == 2

\* key (b.bbox.x, b.bbox.y)
LeftTopKeyLE(a, b) == a.bbox.x < b.bbox.x \/ (a.bbox.x = b.bbox.x /\ a.bbox.y <= b.bbox.y)

\* key (-(b.bbox.x + b.bbox.w), b.bbox.y)
RightTopKeyLE(a, b) ==
    \/ a.bbox.x + a.bbox.w > b.bbox.x + b.bbox.w
    \/ (a.bbox.x + a.bbox.w = b.bbox.x + b.bbox.w /\ a.bbox.y <= b.bbox.y)

MarginPageW(B) == SetMax({ B[b].bbox.x + B[b].bbox.w : b \in DOMAIN B })
MarginPageH(B) == SetMax({ B[b].bbox.y + B[b].bbox.h : b \in DOMAIN B })

TopCandidates(B) ==
    LET band == { b \in DOMAIN B : B[b].bbox.y < IntPercent(TopBandPct, MarginPageH(B)) }
    IN  IF band = {} THEN DOMAIN B ELSE band

\* min(top_candidates, key=...): the first block, in dict order, whose key is
\* minimal
LeftTopSeed(B) ==
    CHOOSE b \in TopCandidates(B) :
        /\ \A c \in TopCandidates(B) : LeftTopKeyLE(B[b], B[c])
        /\ \A c \in TopCandidates(B) : LeftTopKeyLE(B[c], B[b]) => b <= c

RightTopSeed(B) ==
    CHOOSE b \in TopCandidates(B) :
        /\ \A c \in TopCandidates(B) : RightTopKeyLE(B[b], B[c])
        /\ \A c \in TopCandidates(B) : RightTopKeyLE(B[c], B[b]) => b <= c

\* IsMarginLike without the small-area test
IsMarginLikeZonesOnly(B, bb) ==
    \/ bb.x < IntPercent(MarginXPct, MarginPageW(B))
    \/ bb.x + bb.w > MarginPageW(B) - IntPercent(MarginXPct, MarginPageW(B))
    \/ bb.y < IntPercent(MarginYPct, MarginPageH(B))

\* _is_margin_like: left, right or top margin zone, or small area
IsMarginLike(B, bb) ==
    \/ bb.x < IntPercent(MarginXPct, MarginPageW(B))
    \/ bb.x + bb.w > MarginPageW(B) - IntPercent(MarginXPct, MarginPageW(B))
    \/ bb.y < IntPercent(MarginYPct, MarginPageH(B))
    \/ 1000 * (bb.w * bb.h) < SmallAreaPerMille * MarginPageW(B) * MarginPageH(B)

HitsSeed(bb, seed) ==
    bbox_intersects_vertically(bb, seed) \/ bbox_intersects_horizontally(bb, seed)

\* the set to_remove
MarginToRemove(B) ==
    IF Cardinality(DOMAIN B) <= 1 THEN {}
    ELSE IF MarginPageW(B) <= 0 \/ MarginPageH(B) <= 0 THEN {}
    ELSE { b \in DOMAIN B :
             /\ IsMarginLike(B, B[b].bbox)
             /\ \/ HitsSeed(B[b].bbox, B[LeftTopSeed(B)].bbox)
                \/ HitsSeed(B[b].bbox, B[RightTopSeed(B)].bbox) }

\* filter_margin_blocks that leaves the lines of the removed blocks in the line map
filter_margin_blocks_keep_lines(B, L) ==
    IF Cardinality(DOMAIN B) <= 1 THEN [blocks |-> B, lines |-> L]
    ELSE IF MarginPageW(B) <= 0 \/ MarginPageH(B) <= 0 THEN [blocks |-> B, lines |-> L]
    ELSE [blocks |-> [b \in DOMAIN B \ MarginToRemove(B) |-> B[b]], lines |-> L]

filter_margin_blocks(B, L) ==
    IF Cardinality(DOMAIN B) <= 1 THEN [blocks |-> B, lines |-> L]
    ELSE IF MarginPageW(B) <= 0 \/ MarginPageH(B) <= 0 THEN [blocks |-> B, lines |-> L]
    ELSE LET gone == MarginToRemove(B)
             new_lines == [lid \in { l \in DOMAIN L : L[l].block_id \notin gone } |-> L[lid]]
             Kept(lid) == lid \in DOMAIN new_lines
         IN  [blocks |-> [b \in DOMAIN B \ gone |->
                             [B[b] EXCEPT !.line_ids = SelectSeq(@, Kept)]],
              lines |-> new_lines]

(***************************************************************************)
(* SpecMargin: the margin filter on a page layout, run and run again       *)
(***************************************************************************)
MaxMarginBlocks == 3

\* block boxes on a 100 x 100 page: corner marks, header, body columns,
\* a margin note, a small mark and a dot
MarginBoxes ==
    { BBox(0, 0, 10, 10), BBox(90, 0, 10, 10), BBox(30, 0, 40, 8),
      BBox(20, 30, 60, 30), BBox(30, 65, 40, 30), BBox(0, 40, 10, 20),
      BBox(50, 50, 4, 4), BBox(50, 50, 2, 2) }

\* every block holds one line with the block's box
LayoutBlocks(boxes) == [b \in DOMAIN boxes |-> Block(boxes[b], << b >>)]
LayoutLines(boxes) ==
    [b \in DOMAIN boxes |-> Line(b, boxes[b], order_hint_of(boxes[b]), FALSE)]

InitMargin ==
    /\ pc = "filter_margin_blocks"
    /\ page = [w |-> PageW, h |-> PageH]
    /\ \E boxes \in SeqsUpTo(MarginBoxes, 1, MaxMarginBlocks) :
          /\ \A i, j \in DOMAIN boxes : boxes[i] = boxes[j] => i = j
          /\ blocks = LayoutBlocks(boxes)
          /\ lines = LayoutLines(boxes)
    /\ streams = << >>
    /\ use_embeddings = FALSE
    /\ segment_spans = << >>
    /\ al = AlIdle
    /\ GateIdle
    /\ OutputIdle
    /\ ocr = OcrNone
    /\ embedding = EmbNone

MarginFrame ==
    UNCHANGED << page, streams, use_embeddings, unknown_block_ids, unassigned_stream_ids,
                 segment_spans, boundary_cut_failures, validation_flags,
                 needs_human_review, al, commentary_spans, page_bboxes, pages_db, sessions_db, ocr,
                 embedding, call >>

\* graph.node_filter_margin_blocks
FilterMarginBlocks ==
    /\ pc = "filter_margin_blocks"
    /\ LET r == filter_margin_blocks(blocks, lines)
       IN  blocks' = r.blocks /\ lines' = r.lines
    /\ pc' = "filtered"
    /\ MarginFrame

\* the filter applied to its own output
FilterMarginBlocksAgain ==
    /\ pc = "filtered"
    /\ LET r == filter_margin_blocks(blocks, lines)
       IN  blocks' = r.blocks /\ lines' = r.lines
    /\ pc' = "refiltered"
    /\ MarginFrame

NextMargin == FilterMarginBlocks \/ FilterMarginBlocksAgain

SpecMargin == InitMargin /\ [][NextMargin]_vars

\* C5 as stated: the filter applied to its own output removes no further
\* block or line, filter(filter(B, L)) = filter(B, L).
C5_Idempotent ==
    pc = "filtered" =>
        /\ filter_margin_blocks(blocks, lines).blocks = blocks
        /\ filter_margin_blocks(blocks, lines).lines = lines

\* the pixel columns and rows a box covers
XRange(bb) == bb.x .. (bb.x + bb.w - 1)
YRange(bb) == bb.y .. (bb.y + bb.h - 1)

\* (a) of the removal rule: the x-range or the y-range of the box meets that
\* of the left-top seed or of the right-top seed
MeetsSeedStrip(B, bb) ==
    \E seed \in { LeftTopSeed(B), RightTopSeed(B) } :
        \/ XRange(bb) \cap XRange(B[seed].bbox) # {}
        \/ YRange(bb) \cap YRange(B[seed].bbox) # {}

InMarginZone(B, bb) ==
    \/ bb.x < IntPercent(MarginXPct, MarginPageW(B))
    \/ bb.x + bb.w > MarginPageW(B) - IntPercent(MarginXPct, MarginPageW(B))
    \/ bb.y < IntPercent(MarginYPct, MarginPageH(B))

IsSmallArea(B, bb) ==
    1000 * (bb.w * bb.h) < SmallAreaPerMille * MarginPageW(B) * MarginPageH(B)

\* C23: a run of the margin filter on two or more blocks removes a block if
\* and only if (a) its x-range or y-range meets that of the left-top or of the
\* right-top seed and (b) it lies in the left, right or top margin zone or its
\* area is below the small-area threshold; a block in no margin zone and not
\* small is never removed, and with at most one block nothing is removed.
C23_RemovedIffSeedStripAndMarginLike ==
    [][ (pc = "filter_margin_blocks" \/ pc = "filtered") =>
         (/\ DOMAIN blocks' \subseteq DOMAIN blocks
          /\ Cardinality(DOMAIN blocks) >= 2 =>
                \A b \in DOMAIN blocks :
                    b \notin DOMAIN blocks' <=>
                        /\ MeetsSeedStrip(blocks, blocks[b].bbox)
                        /\ \/ InMarginZone(blocks, blocks[b].bbox)
                           \/ IsSmallArea(blocks, blocks[b].bbox)
          /\ \A b \in DOMAIN blocks :
                (~InMarginZone(blocks, blocks[b].bbox) /\ ~IsSmallArea(blocks, blocks[b].bbox))
                    => b \in DOMAIN blocks'
          /\ Cardinality(DOMAIN blocks) <= 1 => (blocks' = blocks /\ lines' = lines))
      ]_vars

\* of three blocks the filter removed the first two and kept the body block,
\* whose columns meet those of the header but which is not margin-like
C23_Witness ==
    /\ pc = "filtered"
    /\ DOMAIN blocks = {3}
    /\ DOMAIN lines = {3}
    /\ blocks[3].bbox = BBox(20, 30, 60, 30)

(***************************************************************************)
(* rashi.py: _split_points_for_line, split_rashi_lines                     *)
(***************************************************************************)
SplitPad == 2

\* the crop (x0, x1) of a line padded by pad on a page of width page_w
CropX0(bb, pad) == Max(0, bb.x - pad)
CropX1(bb, pad, page_w) == Min(page_w, bb.x + bb.w + pad)

\* left edges, local to the crop, that a word box found in the crop can have
CropLocalXs(bb, pad, page_w) == 0..(CropX1(bb, pad, page_w) - CropX0(bb, pad) - 1)

\* f"{lid}_s{idx}"
SubLineId(lid, idx) == 10 * lid + idx
IsSubLineId(lid) == lid >= 10
OrigLineId(lid) == IF IsSubLineId(lid) THEN lid \div 10 ELSE lid

\* sorted(set(line_x + box.x)) over the words ending with ':'; colon_xs holds
\* their left edges, local to the crop
split_points_for_line(ln, colon_xs) == SetToSeq({ ln.bbox.x + bx : bx \in colon_xs })

\* segments.sort(key=lambda seg: -seg[0]), a stable sort
RECURSIVE InsertByLeftDesc(_, _)
InsertByLeftDesc(sorted, seg) ==
    IF sorted = << >> THEN << seg >>
    ELSE IF seg[1] > Head(sorted)[1]
         THEN << seg >> \o sorted
         ELSE << Head(sorted) >> \o InsertByLeftDesc(Tail(sorted), seg)

RECURSIVE SortByLeftDesc(_)
SortByLeftDesc(segs) ==
    IF segs = << >> THEN << >>
    ELSE InsertByLeftDesc(SortByLeftDesc(SubSeq(segs, 1, Len(segs) - 1)), segs[Len(segs)])

\* the (left, right) pairs of a split line, rightmost first
LineSegments(ln, split_xs) ==
    LET left_edges == << ln.bbox.x >> \o split_xs
        right_edges == split_xs \o << ln.bbox.x + ln.bbox.w >>
    IN  SortByLeftDesc([i \in 1..Len(left_edges) |-> << left_edges[i], right_edges[i] >>])

\* the Line built for segment number idx (0 = rightmost) of line ln
SegmentLine(ln, seg, idx) ==
    Line(ln.block_id, BBox(seg[1], ln.bbox.y, seg[2] - seg[1], ln.bbox.h),
         [ln.order_hint EXCEPT !.frac = @ + idx], TRUE)

\* the ids a block's line id is replaced by
NewLineIds(lid, L, colon) ==
    IF lid \notin DOMAIN L THEN << >>
    ELSE IF colon[lid] = {} THEN << lid >>
    ELSE [k \in 1..(Cardinality(colon[lid]) + 1) |-> SubLineId(lid, k - 1)]

RECURSIVE FlatMapIds(_, _, _)
FlatMapIds(ids, L, colon) ==
    IF ids = << >> THEN << >>
    ELSE NewLineIds(Head(ids), L, colon) \o FlatMapIds(Tail(ids), L, colon)

\* colon[lid]: crop-local left edges of the words ending with ':' that the
\* word-level OCR returns for the crop of line lid
split_rashi_lines(B, L, colon, page_w) ==
    LET rashi == { b \in DOMAIN B : B[b].font = "rashi" }
        split == { lid \in DOMAIN L :
                     /\ \E b \in rashi : lid \in Range(B[b].line_ids)
                     /\ colon[lid] # {} }
        subs == UNION { { SubLineId(lid, k - 1) : k \in 1..(Cardinality(colon[lid]) + 1) } :
                        lid \in split }
        SubOf(sid) ==
            LET lid == OrigLineId(sid)
                idx == sid - 10 * lid
                segs == LineSegments(L[lid], split_points_for_line(L[lid], colon[lid]))
            IN  SegmentLine(L[lid], segs[idx + 1], idx)
    IN  [blocks |-> [b \in DOMAIN B |->
                        IF b \in rashi
                        THEN [B[b] EXCEPT !.line_ids = FlatMapIds(@, L, colon)]
                        ELSE B[b]],
         lines |-> [lid \in (DOMAIN L \ split) \cup subs |->
                        IF lid \in DOMAIN L \ split THEN L[lid] ELSE SubOf(lid)]]

(***************************************************************************)
(* align.py: extract_commentary_spans_from_blocks                          *)
(***************************************************************************)
\* BlockSpans without `or i == len(ordered) - 1`
RECURSIVE BlockSpansDropTail(_, _, _, _)
BlockSpansDropTail(ordered, L, start, i) ==
    IF i > Len(ordered) THEN << >>
    ELSE IF L[ordered[i]].is_span_end
         THEN << [start_line_id |-> ordered[start], end_line_id |-> ordered[i],
                  text |-> ConcatTexts(ordered, start, i, L)] >>
              \o BlockSpansDropTail(ordered, L, i + 1, i + 1)
         ELSE BlockSpansDropTail(ordered, L, start, i + 1)

\* the loop over enumerate(ordered) of one block, from index i with the
\* current span starting at index start
RECURSIVE BlockSpans(_, _, _, _)
BlockSpans(ordered, L, start, i) ==
    IF i > Len(ordered) THEN << >>
    ELSE IF L[ordered[i]].is_span_end \/ i = Len(ordered)
         THEN << [start_line_id |-> ordered[start], end_line_id |-> ordered[i],
                  text |-> ConcatTexts(ordered, start, i, L)] >>
              \o BlockSpans(ordered, L, i + 1, i + 1)
         ELSE BlockSpans(ordered, L, start, i + 1)

extract_commentary_spans_from_blocks(B, L) ==
    LET RECURSIVE Collect(_)
        Collect(bids) ==
            IF bids = << >> THEN << >>
            ELSE (IF B[Head(bids)].font = "rashi"
                  THEN BlockSpans(SortByHint(B[Head(bids)].line_ids, L), L, 1, 1)
                  ELSE << >>) \o Collect(Tail(bids))
    IN  Collect(Keys(B))

(***************************************************************************)
(* SpecSplit: Rashi line splitting of one block, then span extraction      *)
(***************************************************************************)
MaxSplitLines == 2
MaxColonWords == 2

SplitPage == [w |-> 6, h |-> 40]

\* line k of the block: rows of height RowH, alternately at x = 0 and x = 2
SplitLineBox(k) == BBox(IF k % 2 = 1 THEN 0 ELSE 2, RowH * (k - 1), 3, RowH)

SplitBlocks(n, font) ==
    [b \in {1} |-> [Block(BBox(0, 0, 5, RowH * n), Refs(n)) EXCEPT !.font = font]]

SplitLines(n) ==
    [k \in 1..n |-> Line(1, SplitLineBox(k), order_hint_of(SplitLineBox(k)), FALSE)]

\* what the OCR can report for the crop of a line: at most max words ending with ':'
ColonChoices(bb, max) ==
    { X \in SUBSET CropLocalXs(bb, SplitPad, SplitPage.w) : Cardinality(X) <= max }

InitSplitCommon ==
    /\ pc = "split_rashi_lines"
    /\ page = SplitPage
    /\ streams = << >>
    /\ use_embeddings = FALSE
    /\ segment_spans = << >>
    /\ al = AlIdle
    /\ embedding = EmbNone
    /\ GateIdle
    /\ OutputIdle

InitSplitGeneral ==
    /\ \E n \in 1..MaxSplitLines, font \in { "rashi", "hebrew" } :
          /\ blocks = SplitBlocks(n, font)
          /\ lines = SplitLines(n)
    /\ \E colon \in [DOMAIN lines -> ColonChoices(SplitLineBox(1), MaxColonWords)
                                     \cup ColonChoices(SplitLineBox(2), MaxColonWords)] :
          /\ \A k \in DOMAIN lines : colon[k] \in ColonChoices(SplitLineBox(k), MaxColonWords)
          /\ ocr = [colon_xs |-> colon, cut_words |-> << >>]
    /\ InitSplitCommon

\* a commentary block of three lines of which lines 1 and 3 end with the
\* delimiter word and line 2 holds none
InitSplitScenario ==
    /\ blocks = SplitBlocks(3, "rashi")
    /\ lines = SplitLines(3)
    /\ \E x1 \in CropLocalXs(SplitLineBox(1), SplitPad, SplitPage.w),
          x3 \in CropLocalXs(SplitLineBox(3), SplitPad, SplitPage.w) :
          ocr = [colon_xs |-> << {x1}, {}, {x3} >>, cut_words |-> << >>]
    /\ InitSplitCommon

InitSplit == InitSplitGeneral \/ InitSplitScenario

SplitFrame ==
    UNCHANGED << page, streams, use_embeddings, unknown_block_ids, unassigned_stream_ids,
                 segment_spans, boundary_cut_failures, validation_flags,
                 needs_human_review, al, page_bboxes, pages_db, sessions_db, ocr,
                 embedding, call >>

\* graph.node_split_rashi_lines
SplitRashiLines ==
    /\ pc = "split_rashi_lines"
    /\ LET r == split_rashi_lines(blocks, lines, ocr.colon_xs, page.w)
       IN  blocks' = r.blocks /\ lines' = r.lines
    /\ pc' = "split_done"
    /\ UNCHANGED commentary_spans
    /\ SplitFrame

\* the first call of graph.node_match_commentary_spans
ExtractCommentarySpans ==
    /\ pc = "split_done"
    /\ commentary_spans' = extract_commentary_spans_from_blocks(blocks, lines)
    /\ pc' = "extracted"
    /\ UNCHANGED << blocks, lines >>
    /\ SplitFrame

NextSplit == SplitRashiLines \/ ExtractCommentarySpans

SpecSplit == InitSplit /\ [][NextSplit]_vars

\* the scenario of C4, recognised after the split by the ids of the block
IsScenarioC4 ==
    /\ { OrigLineId(lid) : lid \in DOMAIN lines } = { 1, 2, 3 }
    /\ blocks[1].font = "rashi"
    /\ Cardinality(ocr.colon_xs[1]) = 1
    /\ ocr.colon_xs[2] = {}
    /\ Cardinality(ocr.colon_xs[3]) = 1

\* C4 as stated: in the scenario, splitting and then extracting yields exactly
\* two spans, covering the original lines [1,1] and [2,3].
C4_TwoSpans ==
    (pc = "extracted" /\ IsScenarioC4) =>
        /\ Len(commentary_spans) = 2
        /\ OrigLineId(commentary_spans[1].start_line_id) = 1
        /\ OrigLineId(commentary_spans[1].end_line_id) = 1
        /\ OrigLineId(commentary_spans[2].start_line_id) = 2
        /\ OrigLineId(commentary_spans[2].end_line_id) = 3

RECURSIVE SumWidths(_)
SumWidths(S) ==
    IF S = {} THEN 0
    ELSE LET s == CHOOSE x \in S : TRUE IN s.w + SumWidths(S \ {s})

\* the boxes S have non-negative widths and tile the horizontal range of bb
TilesRange(S, bb) ==
    /\ \A s \in S : s.w >= 0 /\ bb.x <= s.x /\ s.x + s.w <= bb.x + bb.w
    /\ \A s, t \in S : s # t => (s.x + s.w <= t.x \/ t.x + t.w <= s.x)
    /\ SumWidths(S) = bb.w

\* C9 as stated: whenever the splitter splits a line, its sub-segments have
\* non-negative widths and tile the range [line.x, line.x + line.w] of the line.
C9_SubSegmentsTile ==
    [][ pc = "split_rashi_lines" =>
          \A lid \in DOMAIN lines \ DOMAIN lines' :
              TilesRange({ lines'[s].bbox : s \in { t \in DOMAIN lines' : OrigLineId(t) = lid } },
                         lines[lid].bbox) ]_vars

\* the sub-segments that replaced line lid in the step
SubSegmentsOf(lid) == { t \in DOMAIN lines' \ DOMAIN lines : OrigLineId(t) = lid }

\* C24 as stated: after the splitter splits a line, its sub-segments are all
\* flagged is_span_end, in the order of their order_hint their left edges
\* descend strictly, and the order_hint of each lies at or after that of the
\* original line and strictly before that of any line that followed the
\* original in reading order.
C24_SubSegmentsOrdered ==
    [][ pc = "split_rashi_lines" =>
          \A lid \in DOMAIN lines \ DOMAIN lines' :
              /\ SubSegmentsOf(lid) # {}
              /\ \A s \in SubSegmentsOf(lid) :
                    /\ lines'[s].is_span_end
                    /\ ~HintLT(lines'[s].order_hint, lines[lid].order_hint)
                    /\ \A m \in DOMAIN lines :
                          HintLT(lines[lid].order_hint, lines[m].order_hint) =>
                              \A t \in DOMAIN lines' :
                                  OrigLineId(t) = m =>
                                      HintLT(lines'[s].order_hint, lines'[t].order_hint)
              /\ \A s, t \in SubSegmentsOf(lid) :
                    s # t =>
                       /\ lines'[s].order_hint # lines'[t].order_hint
                       /\ HintLT(lines'[s].order_hint, lines'[t].order_hint) =>
                              lines'[s].bbox.x > lines'[t].bbox.x ]_vars

\* the spans whose start line belongs to block b, in the order of the output
SpansOfBlock(b) ==
    LET RECURSIVE Pick(_)
        Pick(k) ==
            IF k > Len(commentary_spans) THEN << >>
            ELSE (IF commentary_spans[k].start_line_id \in Range(blocks[b].line_ids)
                  THEN << commentary_spans[k] >> ELSE << >>) \o Pick(k + 1)
    IN  Pick(1)

\* the position of line lid in the sequence ord, 0 if absent
IndexIn(ord, lid) ==
    IF lid \in Range(ord) THEN CHOOSE i \in 1..Len(ord) : ord[i] = lid ELSE 0

\* C25: for every commentary-script block the extracted spans partition the
\* block's lines in reading order: every line lies in exactly one span, each
\* span is a contiguous run starting right after the end of the previous span
\* (or at the block start), and each span ends at a line flagged is_span_end
\* or at the last line of the block; a block of another script has no span.
C25_SpansPartitionBlock ==
    pc = "extracted" =>
        \A b \in DOMAIN blocks :
            LET ord == SortByHint(blocks[b].line_ids, lines)
                sp == SpansOfBlock(b)
                From(k) == IndexIn(ord, sp[k].start_line_id)
                To(k) == IndexIn(ord, sp[k].end_line_id)
            IN  IF blocks[b].font # "rashi" THEN sp = << >>
                ELSE /\ \A k \in 1..Len(sp) :
                           /\ 1 <= From(k) /\ From(k) <= To(k)
                           /\ From(k) = (IF k = 1 THEN 1 ELSE To(k - 1) + 1)
                           /\ lines[sp[k].end_line_id].is_span_end \/ To(k) = Len(ord)
                     /\ \A i \in 1..Len(ord) :
                           Cardinality({ k \in 1..Len(sp) : From(k) <= i /\ i <= To(k) }) = 1

\* a commentary block whose lines went into three or more spans, one of them
\* running from an unsplit line to the first sub-segment of the next line
C25_Witness ==
    /\ pc = "extracted"
    /\ blocks[1].font = "rashi"
    /\ Len(commentary_spans) >= 3
    /\ \E k \in 1..Len(commentary_spans) :
          /\ ~IsSubLineId(commentary_spans[k].start_line_id)
          /\ IsSubLineId(commentary_spans[k].end_line_id)

(***************************************************************************)
(* graph.py: node_align_segments                                           *)
(***************************************************************************)
\* next(iter(streams.keys()), "s0")
MainStreamId(S) == IF S = << >> THEN "s0" ELSE S[1].stream_id

\* get_embeddings over a list of texts: the service's answer for each text
EmbeddingsOf(texts, Emb) == [k \in 1..Len(texts) |-> Emb[normalize_hebrew(texts[k])]]

\* the spans one stream contributes
StreamSpans(st, B, L, S, use_emb, Emb) ==
    LET ids == StreamLineIds(B, st.stream_id)
        ordered == OrderedLines(ids, L)
    IN  IF ids = << >> THEN << >>
        ELSE IF use_emb /\ st.stream_id = MainStreamId(S)
             THEN align_segments_to_lines_for_stream_embeddings(
                      st, ids, L,
                      EmbeddingsOf([k \in 1..Len(ordered) |-> L[ordered[k]].vlm_text], Emb),
                      EmbeddingsOf(st.seg_texts, Emb), EmbWindow, EmbMinScore)
             ELSE align_segments_to_lines_for_stream(st, ids, L, LexWindow, LexMinScore)

align_segments(B, L, S, use_emb, Emb) ==
    LET RECURSIVE Collect(_)
        Collect(k) ==
            IF k > Len(S) THEN << >>
            ELSE StreamSpans(S[k], B, L, S, use_emb, Emb) \o Collect(k + 1)
    IN  Collect(1)

(***************************************************************************)
(* align.py: match_commentary_spans_to_streams                             *)
(***************************************************************************)
\* seg_triples: (stream_id, seg_ref, text) of every segment of the streams
\* other than the main one
SegTriples(S, main_stream_id) ==
    LET RECURSIVE Collect(_)
        Collect(k) ==
            IF k > Len(S) THEN << >>
            ELSE (IF S[k].stream_id = main_stream_id THEN << >>
                  ELSE [i \in 1..Min(Len(S[k].seg_refs), Len(S[k].seg_texts)) |->
                           [stream_id |-> S[k].stream_id, seg_ref |-> S[k].seg_refs[i],
                            text |-> S[k].seg_texts[i]]])
                 \o Collect(k + 1)
    IN  Collect(1)

\* the scan `if sc > best_sc` over the segment embeddings, from best_j = -1
RECURSIVE BestSegment(_, _, _, _, _)
BestSegment(span_vec, seg_emb, j, best_j, best_sc) ==
    IF j > Len(seg_emb) THEN [j |-> best_j, sc |-> best_sc]
    ELSE LET sc == cosine_similarity(span_vec, seg_emb[j])
         IN  IF ScoreGT(sc, best_sc)
             THEN BestSegment(span_vec, seg_emb, j + 1, j, sc)
             ELSE BestSegment(span_vec, seg_emb, j + 1, best_j, best_sc)

match_commentary_spans_to_streams(cspans, S, main_stream_id, Emb) ==
    LET triples == SegTriples(S, main_stream_id)
        span_emb == EmbeddingsOf([k \in 1..Len(cspans) |-> cspans[k].text], Emb)
        seg_emb == EmbeddingsOf([j \in 1..Len(triples) |-> triples[j].text], Emb)
        RECURSIVE Collect(_)
        Collect(idx) ==
            IF idx > Len(cspans) THEN << >>
            ELSE LET best == BestSegment(span_emb[idx], seg_emb, 1, 0, ScoreMinusOne)
                 IN  (IF best.j = 0 THEN << >>
                      ELSE << SegmentSpan(triples[best.j].stream_id, triples[best.j].seg_ref,
                                          cspans[idx].start_line_id, cspans[idx].end_line_id,
                                          << best.sc >>, << "commentary_embed" >>) >>)
                     \o Collect(idx + 1)
    IN  IF cspans = << >> \/ triples = << >> THEN << >> ELSE Collect(1)

(***************************************************************************)
(* cuts.py: last_word, compute_boundary_cuts_for_spans                     *)
(***************************************************************************)
CutPad == 6
WordMatchThresh == Ratio(3, 5)      \* word_match_thresh = 60.0 of 100

\* "" when the text holds no word
last_word(seg_text) ==
    LET t == normalize_hebrew(seg_text) IN IF t = << >> THEN "" ELSE t[Len(t)]

\* rapidfuzz ratio / 100 of an OCR word, given by its letters, and a word of
\* one letter: 2 * lcs / (len(word) + 1)
word_ratio(chars, lw) == Ratio(IF lw \in Range(chars) THEN 2 ELSE 0, Len(chars) + 1)

\* the scan `if sc > best_sc` over word_boxes, from best_bbox = None (0)
RECURSIVE BestWord(_, _, _, _, _)
BestWord(words, lw, k, best_k, best_sc) ==
    IF k > Len(words) THEN [k |-> best_k, sc |-> best_sc]
    ELSE LET sc == word_ratio(words[k].chars, lw)
         IN  IF ScoreGT(sc, best_sc)
             THEN BestWord(words, lw, k + 1, k, sc)
             ELSE BestWord(words, lw, k + 1, best_k, best_sc)

StreamById(S, sid) == SelectSeq(S, LAMBDA st : st.stream_id = sid)

IndexOf(seq, v) ==
    IF v \in Range(seq) THEN CHOOSE i \in 1..Len(seq) : seq[i] = v /\ \A j \in 1..(i - 1) : seq[j] # v
    ELSE 0

AddFlag(sp, f) == [sp EXCEPT !.flags = Append(@, f)]

\* CutOneSpan that keeps the left edge of the best word of a failed cut
CutOneSpanKeepsFailedCut(sp, S, L, words, page_w, thresh) ==
    LET sts == StreamById(S, sp.stream_id)
        st == sts[1]
        idx == IndexOf(st.seg_refs, sp.seg_ref)
        lw == last_word(st.seg_texts[idx])
        end_line == L[sp.end_line_id]
        x0 == CropX0(end_line.bbox, CutPad)
        best == BestWord(words[sp.end_line_id], lw, 1, 0, ScoreMinusOne)
    IN  IF sts = << >> THEN AddFlag(sp, "missing_stream")
        ELSE IF idx = 0 THEN AddFlag(sp, "missing_seg_ref")
        ELSE IF lw = "" THEN AddFlag(sp, "no_last_word")
        ELSE IF sp.end_line_id \notin DOMAIN L THEN AddFlag(sp, "missing_end_line")
        ELSE IF best.k = 0 THEN AddFlag(sp, "cut_failed")
        ELSE IF ScoreLT(best.sc, thresh)
        THEN AddFlag([sp EXCEPT !.end_cut_x = << x0 + words[sp.end_line_id][best.k].x >>],
                     "cut_failed")
        ELSE AddFlag([sp EXCEPT !.end_cut_x = << x0 + words[sp.end_line_id][best.k].x >>],
                     "cut_ok")

\* the loop body for one span: the span as the loop leaves it. words[lid] is
\* what the word-level OCR returns for the padded crop of line lid, each word
\* with the left edge x of its box, local to the crop
CutOneSpan(sp, S, L, words, page_w, thresh) ==
    LET sts == StreamById(S, sp.stream_id)
        st == sts[1]
        idx == IndexOf(st.seg_refs, sp.seg_ref)
        lw == last_word(st.seg_texts[idx])
        end_line == L[sp.end_line_id]
        x0 == CropX0(end_line.bbox, CutPad)
        best == BestWord(words[sp.end_line_id], lw, 1, 0, ScoreMinusOne)
    IN  IF sts = << >> THEN AddFlag(sp, "missing_stream")
        ELSE IF idx = 0 THEN AddFlag(sp, "missing_seg_ref")
        ELSE IF lw = "" THEN AddFlag(sp, "no_last_word")
        ELSE IF sp.end_line_id \notin DOMAIN L THEN AddFlag(sp, "missing_end_line")
        ELSE IF best.k = 0 \/ ScoreLT(best.sc, thresh) THEN AddFlag(sp, "cut_failed")
        ELSE AddFlag([sp EXCEPT !.end_cut_x = << x0 + words[sp.end_line_id][best.k].x >>],
                     "cut_ok")

\* the branches that run `failures.append((sp.stream_id, sp.seg_ref))`
CutFails(sp, S, L, words, page_w, thresh) ==
    LET sts == StreamById(S, sp.stream_id)
        st == sts[1]
        idx == IndexOf(st.seg_refs, sp.seg_ref)
        lw == last_word(st.seg_texts[idx])
        best == BestWord(words[sp.end_line_id], lw, 1, 0, ScoreMinusOne)
    IN  \/ sts = << >>
        \/ idx = 0
        \/ lw = ""
        \/ sp.end_line_id \notin DOMAIN L
        \/ best.k = 0
        \/ ScoreLT(best.sc, thresh)

\* returns the spans as mutated, and the failures
compute_boundary_cuts_for_spans(spans, S, L, words, page_w, thresh) ==
    LET RECURSIVE Failures(_)
        Failures(k) ==
            IF k > Len(spans) THEN << >>
            ELSE (IF CutFails(spans[k], S, L, words, page_w, thresh)
                  THEN << << spans[k].stream_id, spans[k].seg_ref >> >> ELSE << >>)
                 \o Failures(k + 1)
    IN  [spans |-> [k \in 1..Len(spans) |->
                       CutOneSpan(spans[k], S, L, words, page_w, thresh)],
         failures |-> Failures(1)]

(***************************************************************************)
(* validate.py: validate_state; graph.py: route_after_validate             *)
(***************************************************************************)
\* validate_state without the test of boundary_cut_failures
ValidationFlagsNoCuts(unknown, failures, spans) ==
    (IF unknown # << >> THEN << "unknown_blocks" >> ELSE << >>)
    \o (IF \E k \in 1..Len(spans) : HasFlag(spans[k], "align_failed")
        THEN << "align_failures" >> ELSE << >>)

\* the list flags of validate_state
ValidationFlags(unknown, failures, spans) ==
    (IF unknown # << >> THEN << "unknown_blocks" >> ELSE << >>)
    \o (IF failures # << >> THEN << "boundary_cut_failures" >> ELSE << >>)
    \o (IF \E k \in 1..Len(spans) : HasFlag(spans[k], "align_failed")
        THEN << "align_failures" >> ELSE << >>)

route_after_validate(needs_review) == IF ~needs_review THEN "persist" ELSE "pause_for_hitl"

(***************************************************************************)
(* page_schema.py: _segment_spans_to_bboxes                                *)
(***************************************************************************)
\* round(n / d, 6), in millionths
Round6(n, d) == (2 * 1000000 * n + d) \div (2 * d)

\* the right edge of the end line of a span without the bound x + w
TrimmedRightNoMin(x, w, end_cut_x) == end_cut_x

\* right = min(x + w, int(end_cut_x))
TrimmedRight(x, w, end_cut_x) == Min(x + w, end_cut_x)

\* the boxes of one line of a span: none if the line is left out
LineBBox(sp, lid, L, page_w, page_h) ==
    LET b == L[lid].bbox
        w == IF lid = sp.end_line_id /\ sp.end_cut_x # << >>
             THEN Max(0, TrimmedRight(b.x, b.w, sp.end_cut_x[1]) - b.x)
             ELSE b.w
    IN  IF w <= 0 \/ b.h <= 0 THEN << >>
        ELSE << [ref |-> sp.seg_ref, top |-> Round6(b.y, page_h), left |-> Round6(b.x, page_w),
                 width |-> Round6(w, page_w), height |-> Round6(b.h, page_h)] >>

SpanBBoxes(sp, sorted_line_ids, L, page_w, page_h) ==
    LET i_start == IndexOf(sorted_line_ids, sp.start_line_id)
        i_end == IndexOf(sorted_line_ids, sp.end_line_id)
        RECURSIVE Collect(_)
        Collect(i) ==
            IF i > i_end THEN << >>
            ELSE LineBBox(sp, sorted_line_ids[i], L, page_w, page_h) \o Collect(i + 1)
    IN  IF i_start = 0 \/ i_end = 0 THEN << >> ELSE Collect(i_start)

segment_spans_to_bboxes(L, spans, page_w, page_h) ==
    LET sorted_line_ids == SortByHint(Keys(L), L)
        RECURSIVE Collect(_)
        Collect(k) ==
            IF k > Len(spans) THEN << >>
            ELSE SpanBBoxes(spans[k], sorted_line_ids, L, page_w, page_h) \o Collect(k + 1)
    IN  IF DOMAIN L = {} \/ page_w <= 0 \/ page_h <= 0 THEN << >> ELSE Collect(1)

(***************************************************************************)
(* SpecPipeline: one run of the graph from assign_blocks to its end        *)
(***************************************************************************)
MaxPipeBlocks == 2
MaxPipeSegs == 2

SessionId == "sid"

PipePage == [w |-> 12, h |-> 4 * RowH]

\* texts of the lines of the page and of the segments of the main stream
PipeLineTexts == { << "a" >>, << "z" >> }
PipeSegTexts == { << "a" >>, << "c" >> }

\* answers of the embedding service for these texts, two orthogonal directions,
\* up to the exchange of the two
PipeEmbeddings ==
    { e \in [PipeLineTexts \cup PipeSegTexts -> { << 1, 0 >>, << 0, 1 >> }] :
        e[<< "a" >>] = << 1, 0 >> }

\* block b holds one line, alternately at x = 0 and x = 7
PipeLineBox(b) == BBox(IF b % 2 = 1 THEN 0 ELSE 7, RowH * (b - 1), 2, RowH)

\* what the word-level OCR can return for the padded crop of a line
CutWordLists ==
    { << [x |-> 1, chars |-> << "a", "c" >>] >>,
      << [x |-> 7, chars |-> << "a", "b" >>], [x |-> 1, chars |-> << "a" >>] >>,
      << [x |-> 7, chars |-> << "a" >>] >> }

\* a page of one-line blocks one under the other, and the main stream alone
InitPipelineRows ==
    /\ pc = "assign_blocks"
    /\ page = PipePage
    /\ \E texts \in SeqsUpTo(PipeLineTexts, 1, MaxPipeBlocks) :
          /\ blocks = [b \in DOMAIN texts |->
                          [Block(PipeLineBox(b), << b >>) EXCEPT !.font = "hebrew"]]
          /\ lines = [b \in DOMAIN texts |->
                         [Line(b, PipeLineBox(b), order_hint_of(PipeLineBox(b)), FALSE)
                             EXCEPT !.vlm_text = texts[b]]]
    /\ \E texts \in SeqsUpTo(PipeSegTexts, 1, MaxPipeSegs) :
          streams = << Stream("s0", Refs(Len(texts)), texts) >>
    /\ use_embeddings \in BOOLEAN
    /\ embedding \in PipeEmbeddings
    /\ \E words \in [DOMAIN lines -> CutWordLists] :
          ocr = [colon_xs |-> << >>, cut_words |-> words]
    /\ segment_spans = << >>
    /\ al = AlIdle
    /\ GateIdle
    /\ OutputIdle

\* texts of the two-column page: the left column reads "a", "b", the right one "d"
ColumnsCutWordLists ==
    { << [x |-> 1, chars |-> << "b" >>] >>, << [x |-> 1, chars |-> << "d" >>] >>,
      << [x |-> 1, chars |-> << "b", "d" >>] >> }

\* a page of two columns side by side: block 1 (left) holds lines 1 and 3,
\* block 2 (right) holds line 2, which lies between them in reading order;
\* stream s0 is the text of the left column and stream s1 that of the right one
InitPipelineColumns ==
    /\ pc = "assign_blocks"
    /\ page = PipePage
    /\ blocks = << [Block(BBox(0, 0, 2, 3 * RowH), << 1, 3 >>) EXCEPT !.font = "hebrew"],
                   [Block(PipeLineBox(2), << 2 >>) EXCEPT !.font = "hebrew"] >>
    /\ lines = [k \in 1..3 |->
                   [Line(IF k = 2 THEN 2 ELSE 1, PipeLineBox(k), order_hint_of(PipeLineBox(k)),
                         FALSE)
                       EXCEPT !.vlm_text = << << "a" >>, << "d" >>, << "b" >> >>[k]]]
    /\ \E t \in { << "b" >>, << "a", "b" >> } :
          streams = << Stream("s0", << 1 >>, << t >>), Stream("s1", << 11 >>, << << "d" >> >>) >>
    /\ use_embeddings = FALSE
    /\ embedding \in PipeEmbeddings
    /\ \E words \in [DOMAIN lines -> ColumnsCutWordLists] :
          ocr = [colon_xs |-> << >>, cut_words |-> words]
    /\ segment_spans = << >>
    /\ al = AlIdle
    /\ GateIdle
    /\ OutputIdle

InitPipeline == InitPipelineRows \/ InitPipelineColumns

\* graph.node_align_segments
AlignSegments ==
    /\ pc = "assigned"
    /\ segment_spans' = align_segments(blocks, lines, streams, use_embeddings, embedding)
    /\ pc' = "aligned"
    /\ UNCHANGED << page, blocks, lines, streams, use_embeddings, unknown_block_ids,
                    unassigned_stream_ids, boundary_cut_failures, validation_flags,
                    needs_human_review, al, commentary_spans, page_bboxes, pages_db,
                    sessions_db, ocr, embedding, call >>

\* graph.node_match_commentary_spans
MatchCommentarySpans ==
    /\ pc = "aligned"
    /\ LET cs == extract_commentary_spans_from_blocks(blocks, lines)
       IN  /\ commentary_spans' = cs
           /\ segment_spans' = segment_spans \o
                  match_commentary_spans_to_streams(cs, streams, MainStreamId(streams),
                                                    embedding)
    /\ pc' = "matched"
    /\ UNCHANGED << page, blocks, lines, streams, use_embeddings, unknown_block_ids,
                    unassigned_stream_ids, boundary_cut_failures, validation_flags,
                    needs_human_review, al, page_bboxes, pages_db, sessions_db, ocr,
                    embedding, call >>

\* graph.node_boundary_cuts
BoundaryCuts ==
    /\ pc = "matched"
    /\ LET r == compute_boundary_cuts_for_spans(segment_spans, streams, lines,
                                                ocr.cut_words, page.w, WordMatchThresh)
       IN  /\ segment_spans' = r.spans
           /\ boundary_cut_failures' = r.failures
    /\ pc' = "cut"
    /\ UNCHANGED << page, blocks, lines, streams, use_embeddings, unknown_block_ids,
                    unassigned_stream_ids, validation_flags, needs_human_review, al,
                    commentary_spans, page_bboxes, pages_db, sessions_db, ocr, embedding, call >>

\* graph.node_validate
Validate ==
    /\ pc = "cut"
    /\ validation_flags' = ValidationFlags(unknown_block_ids, boundary_cut_failures,
                                           segment_spans)
    /\ needs_human_review' = (Len(validation_flags') > 0)
    /\ pc' = "validated"
    /\ UNCHANGED << page, blocks, lines, streams, use_embeddings, unknown_block_ids,
                    unassigned_stream_ids, segment_spans, boundary_cut_failures, al,
                    commentary_spans, page_bboxes, pages_db, sessions_db, ocr, embedding, call >>

\* graph.serialize_state, the fields the model holds
serialize_state ==
    [page |-> page, blocks |-> blocks, lines |-> lines,
     segment_spans |-> segment_spans, validation_flags |-> validation_flags,
     needs_human_review |-> needs_human_review,
     boundary_cut_failures |-> boundary_cut_failures,
     unknown_block_ids |-> unknown_block_ids]

\* graph.node_pause_for_hitl, taken when route_after_validate says so
PauseForHitl ==
    /\ pc = "validated"
    /\ route_after_validate(needs_human_review) = "pause_for_hitl"
    /\ sessions_db' = [s \in DOMAIN sessions_db \cup { SessionId } |->
                          IF s = SessionId THEN serialize_state ELSE sessions_db[s]]
    /\ pc' = "pause_for_hitl"
    /\ UNCHANGED << page, blocks, lines, streams, use_embeddings, unknown_block_ids,
                    unassigned_stream_ids, segment_spans, boundary_cut_failures,
                    validation_flags, needs_human_review, al, commentary_spans,
                    page_bboxes, pages_db, ocr, embedding, call >>

\* graph.node_persist, taken when route_after_validate says so
Persist ==
    /\ pc = "validated"
    /\ route_after_validate(needs_human_review) = "persist"
    /\ page_bboxes' = segment_spans_to_bboxes(lines, segment_spans, page.w, page.h)
    /\ pages_db' = Append(pages_db, [bboxes |-> page_bboxes'])
    /\ sessions_db' = [s \in DOMAIN sessions_db \cup { SessionId } |->
                          IF s = SessionId THEN serialize_state ELSE sessions_db[s]]
    /\ pc' = "persist"
    /\ UNCHANGED << page, blocks, lines, streams, use_embeddings, unknown_block_ids,
                    unassigned_stream_ids, segment_spans, boundary_cut_failures,
                    validation_flags, needs_human_review, al, commentary_spans, ocr,
                    embedding, call >>

NextPipeline ==
    \/ AssignBlocks
    \/ AlignSegments
    \/ MatchCommentarySpans
    \/ BoundaryCuts
    \/ Validate
    \/ PauseForHitl
    \/ Persist

SpecPipeline == InitPipeline /\ [][NextPipeline]_vars

SomeAlignFailed == \E k \in 1..Len(segment_spans) : HasFlag(segment_spans[k], "align_failed")

SomeAlignerFailed ==
    \E k \in 1..Len(segment_spans) :
        HasFlag(segment_spans[k], "align_failed") \/ HasFlag(segment_spans[k], "align_embed_failed")

ValidatorHasRun == pc \in { "validated", "pause_for_hitl", "persist" }

\* C1: after the Validator has run, needs_human_review is true exactly when
\* unknown_block_ids is non-empty, boundary_cut_failures is non-empty or some
\* span carries align_failed; a run that ends in pause_for_hitl has it true and
\* a run that ends in persist has it false.
C1_ReviewIffFlagged ==
    ValidatorHasRun =>
        /\ needs_human_review <=> \/ unknown_block_ids # << >>
                                  \/ boundary_cut_failures # << >>
                                  \/ SomeAlignFailed
        /\ pc = "pause_for_hitl" => needs_human_review
        /\ pc = "persist" => ~needs_human_review

\* a run paused for the boundary cut failures alone
C1_Witness ==
    /\ pc = "pause_for_hitl"
    /\ needs_human_review
    /\ boundary_cut_failures # << >>
    /\ unknown_block_ids = << >>
    /\ ~SomeAlignFailed

\* C2 as stated: a run in which the aligner emitted a failure span (align_failed
\* or align_embed_failed), a boundary cut failed or a block stayed unknown never
\* reaches persist.
C2_FailuresNeverPersist ==
    pc = "persist" =>
        /\ ~SomeAlignerFailed
        /\ boundary_cut_failures = << >>
        /\ unknown_block_ids = << >>

(***************************************************************************)
(* SpecCuts: compute_boundary_cuts_for_spans called on spans of any kind   *)
(***************************************************************************)
MaxCutSpans == 2

\* segment 1 ends with "a", segment 2 holds no word, segment 3 ends with "c"
CutsStreams == << Stream("s0", << 1, 2, 3 >>, << << "a" >>, << >>, << "c" >> >>) >>

\* spans of the stream or of a stream never fetched, of its segments or of a
\* reference it does not hold, ending on line 1 or on a line never extracted
CutSpanChoices ==
    { SegmentSpan(sid, ref, 1, end, << >>, << >>) :
        sid \in { "s0", "sX" }, ref \in { 1, 2, 3, 9 }, end \in { 1, 5 } }

InitCuts ==
    /\ pc = "matched"
    /\ page = PipePage
    /\ blocks = [b \in 1..2 |-> [Block(PipeLineBox(b), << b >>) EXCEPT !.font = "hebrew"]]
    /\ lines = [b \in 1..2 |-> Line(b, PipeLineBox(b), order_hint_of(PipeLineBox(b)), FALSE)]
    /\ streams = CutsStreams
    /\ use_embeddings = FALSE
    /\ embedding = EmbNone
    /\ \E words \in CutWordLists \cup { << >> } :
          ocr = [colon_xs |-> << >>, cut_words |-> << words, << >> >>]
    /\ segment_spans \in SeqsUpTo(CutSpanChoices, 1, MaxCutSpans)
    /\ al = AlIdle
    /\ GateIdle
    /\ OutputIdle

SpecCuts == InitCuts /\ [][BoundaryCuts]_vars

CutFailureFlags ==
    { "cut_failed", "missing_stream", "missing_seg_ref", "no_last_word", "missing_end_line" }

\* the words found in the crop of the end line of a span and the score of each
\* against the last word of the segment
CutWordsOf(sp) == ocr.cut_words[sp.end_line_id]
CutWordScore(sp, j) ==
    LET st == StreamById(streams, sp.stream_id)[1]
    IN  word_ratio(CutWordsOf(sp)[j].chars,
                   last_word(st.seg_texts[IndexOf(st.seg_refs, sp.seg_ref)]))

\* the stream, the segment, its last word and the end line of the span exist
\* and the crop of the end line holds a word
HasBestWord(sp) ==
    /\ StreamById(streams, sp.stream_id) # << >>
    /\ sp.seg_ref \in Range(StreamById(streams, sp.stream_id)[1].seg_refs)
    /\ LET st == StreamById(streams, sp.stream_id)[1]
       IN  last_word(st.seg_texts[IndexOf(st.seg_refs, sp.seg_ref)]) # ""
    /\ sp.end_line_id \in DOMAIN lines
    /\ CutWordsOf(sp) # << >>

\* the first of the words of highest score
BestWordIndex(sp) ==
    CHOOSE j \in 1..Len(CutWordsOf(sp)) :
        /\ \A i \in 1..Len(CutWordsOf(sp)) : ~ScoreGT(CutWordScore(sp, i), CutWordScore(sp, j))
        /\ \A i \in 1..(j - 1) : ScoreGT(CutWordScore(sp, j), CutWordScore(sp, i))

\* the first outcome: best score at or above the threshold, end_cut_x at the
\* crop origin plus the local left edge of the best word, cut_ok gained
OutcomeCut(old, new) ==
    /\ HasBestWord(old)
    /\ ~ScoreLT(CutWordScore(old, BestWordIndex(old)), WordMatchThresh)
    /\ new.end_cut_x = << CropX0(lines[old.end_line_id].bbox, CutPad)
                          + CutWordsOf(old)[BestWordIndex(old)].x >>
    /\ new.flags = Append(old.flags, "cut_ok")

\* the second outcome: end_cut_x left unset, one failure flag gained
OutcomeFailure(old, new) ==
    /\ old.end_cut_x = << >>
    /\ new.end_cut_x = << >>
    /\ \E f \in CutFailureFlags : new.flags = Append(old.flags, f)

\* C26: after the refiner processed a span exactly one of two outcomes holds:
\* the best word score is at or above the threshold, end_cut_x is the crop
\* origin x plus the best word's local left edge and the span gained cut_ok
\* and is not reported; or end_cut_x is left unset, the span gained one of the
\* failure flags and its (stream_id, seg_ref) is appended to the failure list.
\* No other field of the span is modified.
C26_CutOrFailure ==
    [][ pc = "matched" =>
          LET Failed(k) == OutcomeFailure(segment_spans[k], segment_spans'[k])
              RECURSIVE Reported(_)
              Reported(k) ==
                  IF k > Len(segment_spans) THEN << >>
                  ELSE (IF Failed(k)
                        THEN << << segment_spans[k].stream_id, segment_spans[k].seg_ref >> >>
                        ELSE << >>) \o Reported(k + 1)
          IN  /\ Len(segment_spans') = Len(segment_spans)
              /\ \A k \in 1..Min(Len(segment_spans), Len(segment_spans')) :
                    /\ OutcomeCut(segment_spans[k], segment_spans'[k]) # Failed(k)
                    /\ [segment_spans'[k] EXCEPT !.flags = segment_spans[k].flags,
                                                 !.end_cut_x = segment_spans[k].end_cut_x]
                          = segment_spans[k]
              /\ Len(segment_spans') = Len(segment_spans) =>
                    boundary_cut_failures' = Reported(1) ]_vars

\* two spans went through the refiner: the first was cut, the second failed
\* on the word match and is the only one reported
C26_Witness ==
    /\ pc = "cut"
    /\ Len(segment_spans) = 2
    /\ HasFlag(segment_spans[1], "cut_ok")
    /\ segment_spans[1].end_cut_x # << >>
    /\ HasFlag(segment_spans[2], "cut_failed")
    /\ segment_spans[2].end_cut_x = << >>
    /\ boundary_cut_failures = << << segment_spans[2].stream_id, segment_spans[2].seg_ref >> >>

\* C8 as stated: an end_cut_x that is set lies within [x, x + w] of the end line
\* of its span.
C8_CutWithinEndLine ==
    \A k \in 1..Len(segment_spans) :
        LET sp == segment_spans[k]
            b == lines[sp.end_line_id].bbox
        IN  sp.end_cut_x # << >> => (b.x <= sp.end_cut_x[1] /\ sp.end_cut_x[1] <= b.x + b.w)

\* the boxes of the page document derived for line lid under reference ref
DerivedFor(ref, lid) ==
    { k \in 1..Len(page_bboxes) :
        /\ page_bboxes[k].ref = ref
        /\ page_bboxes[k].top = Round6(lines[lid].bbox.y, page.h)
        /\ page_bboxes[k].left = Round6(lines[lid].bbox.x, page.w) }

CutOk(sp) == HasFlag(sp, "cut_ok") /\ sp.end_cut_x # << >>

\* C10: for a span flagged cut_ok with end_cut_x set, a box derived for its end
\* line in the page document is never wider than the untrimmed line.
C10_TrimNeverWidens ==
    \A k \in 1..Len(segment_spans) :
        LET sp == segment_spans[k]
        IN  CutOk(sp) =>
                \A j \in DerivedFor(sp.seg_ref, sp.end_line_id) :
                    Round6(lines[sp.end_line_id].bbox.w, page.w) - page_bboxes[j].width >= 0

\* a persisted page on which a cut inside its end line narrowed the box
C10_Witness ==
    /\ pc = "persist"
    /\ \E k \in 1..Len(segment_spans) :
          LET sp == segment_spans[k]
          IN  /\ CutOk(sp)
              /\ \E j \in DerivedFor(sp.seg_ref, sp.end_line_id) :
                    page_bboxes[j].width < Round6(lines[sp.end_line_id].bbox.w, page.w)

\* the line group of a span: the ordered lines of the blocks assigned to its stream
SpanGroup(sp) == OrderedLines(StreamLineIds(blocks, sp.stream_id), lines)

\* one box per line of the span's range within its group, the end line's box
\* truncated at end_cut_x (a line left with no width gives no box)
GroupBBoxes(sp) ==
    LET g == SpanGroup(sp)
        RECURSIVE Collect(_)
        Collect(i) ==
            IF i > IndexOf(g, sp.end_line_id) THEN << >>
            ELSE LineBBox(sp, g[i], lines, page.w, page.h) \o Collect(i + 1)
    IN  IF IndexOf(g, sp.start_line_id) = 0 THEN << >> ELSE Collect(IndexOf(g, sp.start_line_id))

RECURSIVE AllGroupBBoxes(_)
AllGroupBBoxes(k) ==
    IF k > Len(segment_spans) THEN << >>
    ELSE GroupBBoxes(segment_spans[k]) \o AllGroupBBoxes(k + 1)

\* C11 as stated: the page document holds, for each span, one box per line of
\* the span's range within its own line group, labelled with the span's
\* reference, and no box of a line outside that group.
C11_BoxesOfGroupLinesOnly ==
    pc = "persist" => page_bboxes = AllGroupBBoxes(1)

(***************************************************************************)
(* SpecMatch: one call of the commentary span matcher                      *)
(***************************************************************************)
MaxMatchLines == 2
MaxCommStreams == 2

\* line k of the commentary block reads "a" (odd k) or "b" (even k)
MatchLineText(k) == IF k % 2 = 1 THEN << "a" >> ELSE << "b" >>

\* the segment texts a commentary stream can hold
CommStreamKinds == { << >>, << << "c" >> >>, << << "c" >>, << "d" >> >> }

\* refs of stream number i (1 = main), distinct across streams
StreamRefs(i, n) == [j \in 1..n |-> 10 * (i - 1) + j]

\* every text the matcher can send to the embedding service
MatchTexts(n) ==
    { [j \in 1..(hi - lo + 1) |-> MatchLineText(lo + j - 1)[1]] : lo \in 1..n, hi \in 1..n }
    \cup { << "c" >>, << "d" >> }

MatchVecs == { << 1, 0 >>, << 0, 1 >>, << -1, 0 >> }

InitMatch ==
    /\ pc = "aligned"
    /\ page = [w |-> PageW, h |-> PageH]
    /\ \E n \in 1..MaxMatchLines :
          /\ blocks = [b \in {1} |->
                          [Block(BBox(10, 0, 50, RowH * n), Refs(n)) EXCEPT !.font = "rashi"]]
          /\ \E ends \in [1..n -> BOOLEAN] :
                lines = [k \in 1..n |->
                            [Line(1, BBox(10, RowH * (k - 1), 50, RowH),
                                  order_hint_of(BBox(10, RowH * (k - 1), 50, RowH)), ends[k])
                                EXCEPT !.vlm_text = MatchLineText(k)]]
          /\ embedding \in [{ t \in MatchTexts(n) : Len(t) > 0 } -> MatchVecs]
    /\ \E kinds \in SeqsUpTo(CommStreamKinds, 0, MaxCommStreams) :
          streams = << Stream("s0", << 1 >>, << << "m" >> >>) >> \o
                    [i \in 1..Len(kinds) |->
                        Stream(StreamName(i + 1), StreamRefs(i + 1, Len(kinds[i])), kinds[i])]
    /\ use_embeddings = FALSE
    /\ segment_spans = << >>
    /\ al = AlIdle
    /\ ocr = OcrNone
    /\ GateIdle
    /\ OutputIdle

NextMatch == MatchCommentarySpans

SpecMatch == InitMatch /\ [][NextMatch]_vars

\* span k of the result is the commentary span k assigned to a segment of
\* maximal cosine similarity among the segments of the streams other than main
IsBestMatch(k) ==
    LET sp == segment_spans[k]
        cs == commentary_spans[k]
        triples == SegTriples(streams, MainStreamId(streams))
        Cos(j) == cosine_similarity(embedding[cs.text], embedding[triples[j].text])
    IN  /\ sp.start_line_id = cs.start_line_id
        /\ sp.end_line_id = cs.end_line_id
        /\ sp.flags = << "commentary_embed" >>
        /\ \E j \in 1..Len(triples) :
              /\ triples[j].stream_id = sp.stream_id
              /\ triples[j].seg_ref = sp.seg_ref
              /\ triples[j].stream_id # MainStreamId(streams)
              /\ \A i \in 1..Len(triples) : ScoreGE(Cos(j), Cos(i))

\* C12 as stated: with at least one commentary segment the matcher returns one
\* span per extracted commentary span, each on a segment of maximal cosine
\* similarity and tagged commentary_embed, whatever the similarities are; with
\* no commentary stream it returns the empty list.
C12_OneSpanPerCommentarySpan ==
    pc = "matched" =>
        IF SegTriples(streams, MainStreamId(streams)) = << >>
        THEN segment_spans = << >>
        ELSE /\ Len(segment_spans) = Len(commentary_spans)
             /\ \A k \in 1..Len(segment_spans) : IsBestMatch(k)

(***************************************************************************)
(* app.py: apply_fixes                                                     *)
(***************************************************************************)
\* payload.block_assignments applied to doc["blocks"]
ApplyBlockAssignments(B, ba) ==
    [b \in DOMAIN B |->
        IF b \in DOMAIN ba THEN [B[b] EXCEPT !.assigned_stream_id = ba[b]] ELSE B[b]]

\* one cut override applied to every span of its stream and reference
ApplyCutOverride(spans, ov) ==
    [k \in 1..Len(spans) |->
        IF spans[k].stream_id = ov.stream_id /\ spans[k].seg_ref = ov.seg_ref
        THEN [spans[k] EXCEPT !.end_cut_x = << ov.end_cut_x >>,
                              !.flags = IF "cut_ok" \in Range(@) THEN @
                                        ELSE Append(@, "cut_ok")]
        ELSE spans[k]]

RECURSIVE ApplyCutOverrides(_, _)
ApplyCutOverrides(spans, cut_over) ==
    IF cut_over = << >> THEN spans
    ELSE ApplyCutOverrides(ApplyCutOverride(spans, Head(cut_over)), Tail(cut_over))

\* apply_fixes_doc without the reset of the review fields
apply_fixes_doc_no_reset(doc, payload) ==
    [doc EXCEPT !.blocks = ApplyBlockAssignments(@, payload.block_assignments),
                !.segment_spans = ApplyCutOverrides(@, payload.cut_overrides)]

\* the document apply_fixes writes back for a stored document and a payload
apply_fixes_doc(doc, payload) ==
    [doc EXCEPT !.blocks = ApplyBlockAssignments(@, payload.block_assignments),
                !.segment_spans = ApplyCutOverrides(@, payload.cut_overrides),
                !.needs_human_review = FALSE,
                !.validation_flags = << >>]

(***************************************************************************)
(* SpecFixes: requests to apply_fixes on the sessions collection           *)
(***************************************************************************)
MaxCutOverrides == 1

\* the session ids a request can name: the stored one and one never stored
RequestIds == { SessionId, "nosuch" }

\* a request body that is not JSON
NotJson == [is_json |-> FALSE, block_assignments |-> << >>, cut_overrides |-> << >>]

\* block_assignments names block 1 of the session, block 2 it does not hold,
\* both or none; a cut override names a span of the session or none
FixPayloads ==
    { [is_json |-> TRUE, block_assignments |-> ba, cut_overrides |-> co] :
        ba \in UNION { [D -> { "s0", "s1" }] : D \in SUBSET { 1, 2 } },
        co \in SeqsUpTo([stream_id : { "s0", "s1" }, seg_ref : { 1 }, end_cut_x : { 0, 2, 5 }],
                        0, MaxCutOverrides) }

\* the document a finished run stores for a page of one block and one line
FixDoc(assigned, span_flags, cut) ==
    LET B == << [Block(PipeLineBox(1), << 1 >>)
                    EXCEPT !.font = "hebrew", !.assigned_stream_id = assigned] >>
        L == << Line(1, PipeLineBox(1), order_hint_of(PipeLineBox(1)), FALSE) >>
        spans == IF assigned = None THEN << >>
                 ELSE << [SegmentSpan("s0", 1, 1, 1, << >>, span_flags)
                             EXCEPT !.end_cut_x = cut] >>
        unknown == IF assigned = None THEN << 1 >> ELSE << >>
        failures == IF spans # << >> /\ cut = << >> THEN << << "s0", 1 >> >> ELSE << >>
        flags == ValidationFlags(unknown, failures, spans)
    IN  [page |-> PipePage, blocks |-> B, lines |-> L, segment_spans |-> spans,
         validation_flags |-> flags, needs_human_review |-> (Len(flags) > 0),
         boundary_cut_failures |-> failures, unknown_block_ids |-> unknown]

FixDocs ==
    { FixDoc(None, << >>, << >>) } \cup
    { FixDoc("s0", al_flags \o cut[1], cut[2]) :
        al_flags \in { << >>, << "align_failed" >> },
        cut \in { << << "cut_failed" >>, << >> >>, << << "cut_ok" >>, << 1 >> >> } }

InitFixes ==
    /\ pc = "idle"
    /\ page = PipePage
    /\ blocks = << >>
    /\ lines = << >>
    /\ streams = << >>
    /\ use_embeddings = FALSE
    /\ segment_spans = << >>
    /\ al = AlIdle
    /\ ocr = OcrNone
    /\ embedding = EmbNone
    /\ unknown_block_ids = << >>
    /\ unassigned_stream_ids = << >>
    /\ boundary_cut_failures = << >>
    /\ validation_flags = << >>
    /\ needs_human_review = FALSE
    /\ commentary_spans = << >>
    /\ page_bboxes = << >>
    /\ pages_db = << >>
    /\ call = CallIdle
    /\ \/ sessions_db = << >>
       \/ \E doc \in FixDocs : sessions_db = [s \in { SessionId } |-> doc]

\* app.apply_fixes; pc holds the response
ApplyFixes ==
    /\ \E sid \in RequestIds, payload \in FixPayloads \cup { NotJson } :
          IF sid \notin DOMAIN sessions_db
          THEN pc' = "not_found" /\ UNCHANGED sessions_db
          ELSE IF ~payload.is_json
          THEN pc' = "bad_request" /\ UNCHANGED sessions_db
          ELSE /\ sessions_db' = [sessions_db EXCEPT ![sid] = apply_fixes_doc(@, payload)]
               /\ pc' = "ok"
    /\ UNCHANGED << page, blocks, lines, streams, use_embeddings, unknown_block_ids,
                    unassigned_stream_ids, segment_spans, boundary_cut_failures,
                    validation_flags, needs_human_review, al, commentary_spans,
                    page_bboxes, pages_db, ocr, embedding, call >>

NextFixes == ApplyFixes

SpecFixes == InitFixes /\ [][NextFixes]_vars

\* C13: a request to apply_fixes that succeeds leaves the stored session with
\* needs_human_review = false and no validation flags; a request that is
\* answered not_found changes nothing in the store.
C13_FixesClearReview ==
    [][ /\ pc' = "ok" =>
              /\ SessionId \in DOMAIN sessions_db'
              /\ sessions_db'[SessionId].needs_human_review = FALSE
              /\ sessions_db'[SessionId].validation_flags = << >>
        /\ pc' = "not_found" => sessions_db' = sessions_db ]_vars

\* fixes applied to a session stored with unknown blocks or failed cuts
C13_Witness ==
    /\ pc = "ok"
    /\ \/ sessions_db[SessionId].unknown_block_ids # << >>
       \/ sessions_db[SessionId].boundary_cut_failures # << >>
    /\ ~sessions_db[SessionId].needs_human_review

(***************************************************************************)
(* Calls to the remote model services                                      *)
(*   vlm_client.vlm_classify_block_font, vlm_client.vlm_read_lines: one     *)
(*   item of the loop over the items; embeddings.get_embeddings: one batch. *)
(* call.answers[k] says whether the service answers the k-th request;      *)
(* call.attempt counts the requests made, call.waits the time.sleep calls. *)
(***************************************************************************)
MaxRetries == 6

VlmKinds == { "classify_block_font", "read_lines" }

\* config.OPENAI_MAX_RETRIES = int(os.getenv("OPENAI_MAX_RETRIES", "3"))
RetrySettings == 0..MaxRetries

\* time.sleep(min(2 ** (attempt - 1), 8))
backoff(attempt) == Min(2 ^ (attempt - 1), 8)

InitRetry ==
    /\ pc = "call"
    /\ page = [w |-> PageW, h |-> PageH]
    /\ blocks = << >>
    /\ lines = << >>
    /\ streams = << >>
    /\ use_embeddings = FALSE
    /\ segment_spans = << >>
    /\ al = AlIdle
    /\ ocr = OcrNone
    /\ embedding = EmbNone
    /\ GateIdle
    /\ commentary_spans = << >>
    /\ page_bboxes = << >>
    /\ pages_db = << >>
    /\ sessions_db = << >>
    /\ \E kind \in VlmKinds \cup { "get_embeddings" }, max \in RetrySettings :
         \E answers \in [1..Max(max, 1) -> BOOLEAN] :
            call = [kind |-> kind, max |-> max, answers |-> answers, attempt |-> 0,
                    waits |-> << >>, status |-> "running"]

RetryFrame ==
    UNCHANGED << pc, page, blocks, lines, streams, use_embeddings, unknown_block_ids,
                 unassigned_stream_ids, segment_spans, boundary_cut_failures,
                 validation_flags, needs_human_review, al, commentary_spans,
                 page_bboxes, pages_db, sessions_db, ocr, embedding >>

\* one iteration of `for attempt in range(1, OPENAI_MAX_RETRIES + 1)`
VlmAttempt ==
    /\ call.kind \in VlmKinds
    /\ call.status = "running"
    /\ call.attempt < call.max
    /\ LET attempt == call.attempt + 1 IN
         IF call.answers[attempt]
         THEN call' = [call EXCEPT !.attempt = attempt, !.status = "returned"]
         ELSE IF attempt < call.max
         THEN call' = [call EXCEPT !.attempt = attempt,
                                   !.waits = Append(@, backoff(attempt))]
         ELSE call' = [call EXCEPT !.attempt = attempt]
    /\ RetryFrame

\* the else clause of the loop: the default is stored, and the error of the
\* last attempt, if there is one, is raised
VlmExhausted ==
    /\ call.kind \in VlmKinds
    /\ call.status = "running"
    /\ call.attempt >= call.max
    /\ call' = [call EXCEPT !.status = IF call.attempt > 0 THEN "raised"
                                        ELSE "returned_default"]
    /\ RetryFrame

\* embeddings.get_embeddings: client.embeddings.create inside one try
EmbeddingsRequest ==
    /\ call.kind = "get_embeddings"
    /\ call.status = "running"
    /\ call' = [call EXCEPT !.attempt = 1,
                            !.status = IF call.answers[1] THEN "returned" ELSE "raised"]
    /\ RetryFrame

NextRetry == VlmAttempt \/ VlmExhausted \/ EmbeddingsRequest

SpecRetry == InitRetry /\ [][NextRetry]_vars

CallFinished == call.status \in { "returned", "returned_default", "raised" }

AllAttemptsFailed == \A k \in 1..call.max : ~call.answers[k]

\* C14: a call to a remote model service makes at most max-attempts requests,
\* sleeps 1, 2, 4, ... capped at 8 seconds between consecutive requests, ends
\* at the first request that is answered, and ends in an error exactly when
\* every one of the max-attempts requests fails.
C14_BoundedRetry ==
    /\ call.attempt <= call.max
    /\ \A k \in 1..Len(call.waits) : call.waits[k] = Min(2 ^ (k - 1), 8)
    /\ CallFinished =>
         /\ Len(call.waits) = Max(call.attempt - 1, 0)
         /\ (call.status = "raised") = AllAttemptsFailed
         /\ call.status # "raised" =>
              /\ call.attempt >= 1
              /\ call.answers[call.attempt]
              /\ \A k \in 1..(call.attempt - 1) : ~call.answers[k]

(***************************************************************************)
(* SpecGraph: one run of the compiled graph (graph.build_graph), from      *)
(* render_page to persist or pause_for_hitl.  pc names the node about to   *)
(* run ("render_page", "extract_blocks_lines", ...) or, for the nodes the   *)
(* other specifications share, the node that has just run ("filtered",     *)
(* "split_done", "assigned", ...).  A node that raises ends the run in      *)
(* "aborted".                                                               *)
(***************************************************************************)
\* lid = f"l{block_num}_{par_num}_{line_num}"; the pages below hold one
\* paragraph per block and at most LinesPerBlock lines per block
LinesPerBlock == 3
LayoutLineId(block_num, par_num, line_num) == LinesPerBlock * (block_num - 1) + line_num

\* rows of pytesseract.image_to_data: level 2 is a block, level 4 a line
BlockRow(block_num, bb) ==
    [level |-> 2, block_num |-> block_num, par_num |-> 0, line_num |-> 0, bbox |-> bb]
LineRow(block_num, line_num, bb) ==
    [level |-> 4, block_num |-> block_num, par_num |-> 1, line_num |-> line_num, bbox |-> bb]

DictPut(f, k, v) == [x \in DOMAIN f \cup { k } |-> IF x = k THEN v ELSE f[x]]

\* the first loop: one Block per level-2 row
RECURSIVE BlocksOfRows(_, _)
BlocksOfRows(rows, B) ==
    IF rows = << >> THEN B
    ELSE LET r == Head(rows)
         IN  BlocksOfRows(Tail(rows),
                          IF r.level = 2 THEN DictPut(B, r.block_num, Block(r.bbox, << >>))
                          ELSE B)

\* the second loop: one Line per level-4 row, appended to its block
RECURSIVE LinesOfRows(_, _, _)
LinesOfRows(rows, B, L) ==
    IF rows = << >> THEN [blocks |-> B, lines |-> L]
    ELSE LET r == Head(rows)
             bid == r.block_num
             lid == LayoutLineId(r.block_num, r.par_num, r.line_num)
             B1 == IF bid \in DOMAIN B THEN B ELSE DictPut(B, bid, Block(r.bbox, << >>))
         IN  IF r.level # 4 THEN LinesOfRows(Tail(rows), B, L)
             ELSE LinesOfRows(Tail(rows),
                              [B1 EXCEPT ![bid].line_ids = Append(@, lid)],
                              DictPut(L, lid, Line(bid, r.bbox, order_hint_of(r.bbox), FALSE)))

extract_blocks_lines(rows) == LinesOfRows(rows, BlocksOfRows(rows, << >>), << >>)

\* vlm_classify_block_font: raw is the answer of the vision model for a block
FontOfAnswer(raw) == IF raw = "rashi" THEN "rashi" ELSE "hebrew"

\* graph_edge with the edge out of rashi_tesseract bent past fill_line_text
graph_edge_skip_fill(node) ==
    CASE node = "render_page" -> "extract_blocks_lines"
      [] node = "extract_blocks_lines" -> "filter_margin_blocks"
      [] node = "classify_block_font" -> "split_rashi_lines"
      [] node = "rashi_tesseract" -> "fetch_streams"
      [] node = "fill_line_text" -> "fetch_streams"
      [] node = "fetch_streams" -> "assign_blocks"

\* build_graph: g.add_edge(node, ...), for the nodes of this section
graph_edge(node) ==
    CASE node = "render_page" -> "extract_blocks_lines"
      [] node = "extract_blocks_lines" -> "filter_margin_blocks"
      [] node = "classify_block_font" -> "split_rashi_lines"
      [] node = "rashi_tesseract" -> "fill_line_text"
      [] node = "fill_line_text" -> "fetch_streams"
      [] node = "fetch_streams" -> "assign_blocks"

LinesOfFont(B, font) ==
    UNION { Range(B[b].line_ids) : b \in { c \in DOMAIN B : B[c].font = font } }

\* rashi.run_rashi_tesseract: rashi_tess_text is << text >>, or << >> (None)
\* when image_to_string raises
run_rashi_tesseract(B, L, text, fail) ==
    [lid \in DOMAIN L |->
        IF lid \in LinesOfFont(B, "rashi")
        THEN [L[lid] EXCEPT !.rashi_tess_text =
                 IF OrigLineId(lid) \in fail THEN << >> ELSE << text[OrigLineId(lid)] >>]
        ELSE L[lid]]

\* rashi.fill_line_text_from_tesseract
fill_line_text_from_tesseract(B, L, text, fail) ==
    [lid \in DOMAIN L |->
        IF \A b \in DOMAIN B : lid \notin Range(B[b].line_ids) THEN L[lid]
        ELSE IF L[lid].rashi_tess_text # << >>
        THEN [L[lid] EXCEPT !.vlm_text = L[lid].rashi_tess_text[1]]
        ELSE [L[lid] EXCEPT !.vlm_text =
                 IF OrigLineId(lid) \in fail THEN << >> ELSE text[OrigLineId(lid)]]]

\* three pages: one block of two lines; a corner mark above two body blocks;
\* two columns
GraphLayouts ==
    { << BlockRow(1, BBox(20, 30, 60, 20)),
         LineRow(1, 1, BBox(20, 30, 60, 10)), LineRow(1, 2, BBox(20, 40, 60, 10)) >>,
      << BlockRow(1, BBox(0, 0, 10, 10)), LineRow(1, 1, BBox(0, 0, 10, 10)),
         BlockRow(2, BBox(20, 30, 60, 30)),
         LineRow(2, 1, BBox(20, 30, 60, 10)), LineRow(2, 2, BBox(20, 40, 60, 10)),
         BlockRow(3, BBox(30, 65, 40, 30)), LineRow(3, 1, BBox(30, 65, 40, 10)) >>,
      << BlockRow(1, BBox(20, 30, 25, 20)),
         LineRow(1, 1, BBox(20, 30, 25, 10)), LineRow(1, 2, BBox(20, 40, 25, 10)),
         BlockRow(2, BBox(55, 30, 25, 20)), LineRow(2, 1, BBox(55, 30, 25, 10)) >> }

GraphLineIds == 1..(LinesPerBlock * 3)
GraphAllLineIds == 1..(10 * LinesPerBlock * 3 + 9)

\* the text the OCR reads on a line
GraphLineTexts ==
    { [k \in GraphLineIds |-> << "a" >>],
      [k \in GraphLineIds |-> IF k % 2 = 1 THEN << "a" >> ELSE << "z" >>] }

\* the lines on which the word-level OCR finds one word ending with ':'
GraphColonLines == { {}, { 1 }, { 4 } }

\* answers of the embedding service
GraphEmbedding ==
    [t \in SeqsUpTo({ "a", "z" }, 0, 4) |->
        IF t # << >> /\ t[1] = "a" THEN << 1, 0 >> ELSE << 0, 1 >>]

\* what sefaria_client.extract_streams returns
GraphStreams ==
    { << Stream("s0", << 1 >>, << << "a" >> >>) >>,
      << Stream("s0", << 1, 2 >>, << << "a" >>, << "z" >> >>),
         Stream("s1", << 11 >>, << << "a" >> >>) >> }

InitGraph ==
    /\ pc = "render_page"
    /\ page = [w |-> 0, h |-> 0]
    /\ blocks = << >>
    /\ lines = << >>
    /\ streams = << >>
    /\ use_embeddings \in BOOLEAN
    /\ embedding = GraphEmbedding
    /\ \E layout \in GraphLayouts, text \in GraphLineTexts, colon \in GraphColonLines,
          rashi_fail \in { {}, { 4 } }, text_fail \in { {}, { 1 }, { 4 } },
          words \in { << [x |-> 1, chars |-> << "a" >>] >>,
                      << [x |-> 7, chars |-> << "z" >>] >> } :
          ocr = [layout |-> layout,
                 line_text |-> text,
                 colon_xs |-> [k \in GraphLineIds |-> IF k \in colon THEN { 1 } ELSE {}],
                 rashi_fail |-> rashi_fail,
                 text_fail |-> text_fail,
                 cut_words |-> [k \in GraphAllLineIds |-> words]]
    /\ segment_spans = << >>
    /\ al = AlIdle
    /\ GateIdle
    /\ OutputIdle

GraphFrame ==
    UNCHANGED << streams, use_embeddings, unknown_block_ids, unassigned_stream_ids,
                 segment_spans, boundary_cut_failures, validation_flags,
                 needs_human_review, al, commentary_spans, page_bboxes, pages_db,
                 sessions_db, ocr, embedding >>

\* graph.node_render_page
RenderPage ==
    /\ pc = "render_page"
    /\ page' = [w |-> PageW, h |-> PageH]
    /\ pc' = graph_edge("render_page")
    /\ UNCHANGED << blocks, lines, call >>
    /\ GraphFrame

\* graph.node_extract_blocks_lines
ExtractBlocksLines ==
    /\ pc = "extract_blocks_lines"
    /\ LET r == extract_blocks_lines(ocr.layout)
       IN  blocks' = r.blocks /\ lines' = r.lines
    /\ pc' = graph_edge("extract_blocks_lines")
    /\ UNCHANGED << page, call >>
    /\ GraphFrame

\* graph.node_classify_block_font; raw[b] is the answer of the vision model
\* for block b, "error" when every attempt of the call for b has failed, in
\* which case vlm_classify_block_font raises
ClassifyBlockFont ==
    /\ pc = "filtered"
    /\ IF DOMAIN blocks = {}
       THEN /\ pc' = graph_edge("classify_block_font")
            /\ UNCHANGED << blocks, call >>
       ELSE \E raw \in [DOMAIN blocks -> { "hebrew", "rashi", "", "error" }] :
               /\ call' = [kind |-> "classify_block_font", raw |-> raw,
                           status |-> IF \E b \in DOMAIN blocks : raw[b] = "error"
                                      THEN "raised" ELSE "returned"]
               /\ IF call'.status = "raised"
                  THEN pc' = "aborted" /\ UNCHANGED blocks
                  ELSE /\ pc' = graph_edge("classify_block_font")
                       /\ blocks' = [b \in DOMAIN blocks |->
                                        [blocks[b] EXCEPT !.font = FontOfAnswer(raw[b])]]
    /\ UNCHANGED << page, lines >>
    /\ GraphFrame

\* graph.node_rashi_tesseract
RashiTesseract ==
    /\ pc = "split_done"
    /\ lines' = run_rashi_tesseract(blocks, lines, ocr.line_text, ocr.rashi_fail)
    /\ pc' = graph_edge("rashi_tesseract")
    /\ UNCHANGED << page, blocks, call >>
    /\ GraphFrame

\* graph.node_fill_line_text
FillLineText ==
    /\ pc = "fill_line_text"
    /\ lines' = fill_line_text_from_tesseract(blocks, lines, ocr.line_text, ocr.text_fail)
    /\ pc' = graph_edge("fill_line_text")
    /\ UNCHANGED << page, blocks, call >>
    /\ GraphFrame

\* graph.node_fetch_streams
FetchStreams ==
    /\ pc = "fetch_streams"
    /\ streams' \in GraphStreams
    /\ pc' = graph_edge("fetch_streams")
    /\ UNCHANGED << page, blocks, lines, use_embeddings, unknown_block_ids,
                    unassigned_stream_ids, segment_spans, boundary_cut_failures,
                    validation_flags, needs_human_review, al, commentary_spans,
                    page_bboxes, pages_db, sessions_db, ocr, embedding, call >>

NextGraph ==
    \/ RenderPage
    \/ ExtractBlocksLines
    \/ FilterMarginBlocks
    \/ ClassifyBlockFont
    \/ SplitRashiLines
    \/ RashiTesseract
    \/ FillLineText
    \/ FetchStreams
    \/ AssignBlocks
    \/ AlignSegments
    \/ MatchCommentarySpans
    \/ BoundaryCuts
    \/ Validate
    \/ PauseForHitl
    \/ Persist

SpecGraph == InitGraph /\ [][NextGraph]_vars

\* the values of pc in the order of the edges of the graph: layout extraction
\* (render_page, extract_blocks_lines), margin filter, script classification,
\* script splitting, recognition (rashi_tesseract, fill_line_text), stream
\* fetch, stream assignment, segment alignment, commentary span matching,
\* boundary cuts, validation
StageOrder ==
    << "render_page", "extract_blocks_lines", "filter_margin_blocks", "filtered",
       "split_rashi_lines", "split_done", "fill_line_text", "fetch_streams",
       "assign_blocks", "assigned", "aligned", "matched", "cut", "validated" >>

Terminals == { "persist", "pause_for_hitl" }

TextsOf(L) == [lid \in DOMAIN L |-> << L[lid].vlm_text, L[lid].rashi_tess_text >>]

\* C15: a block whose classification fails is labelled hebrew and a line
\* whose recognition fails is left without text, and the run goes on: no
\* failure of the classifier or of the recognizer on one item aborts the run.
C15_ItemFailureNeverAborts ==
    /\ pc # "aborted"
    /\ call.kind = "classify_block_font" =>
          \A b \in DOMAIN blocks : call.raw[b] = "error" => blocks[b].font = "hebrew"
    /\ pc \in { "fill_line_text" } =>
          \A lid \in DOMAIN lines :
             (lid \in LinesOfFont(blocks, "rashi") /\ OrigLineId(lid) \in ocr.rashi_fail)
                 => lines[lid].rashi_tess_text = << >>
    /\ pc \in { "fetch_streams", "assign_blocks" } =>
          \A lid \in DOMAIN lines :
             (lines[lid].rashi_tess_text = << >> /\ OrigLineId(lid) \in ocr.text_fail)
                 => lines[lid].vlm_text = << >>

\* C16: every step of a run moves pc to the next stage of StageOrder, from
\* validation to exactly one of the two terminals, or to "aborted"; nothing
\* runs after a terminal, and the texts of the lines are written only by the
\* recognition stages, after split_rashi_lines has run, on the lines it left.
C16_StagesInOrder ==
    [][ /\ pc' = pc => UNCHANGED vars
        /\ pc' # pc =>
              \/ pc' = "aborted" /\ pc \in Range(StageOrder)
              \/ \E k \in 1..(Len(StageOrder) - 1) :
                    pc = StageOrder[k] /\ pc' = StageOrder[k + 1]
              \/ pc = "validated" /\ pc' \in Terminals
        /\ (DOMAIN lines' # DOMAIN lines \/ TextsOf(lines') # TextsOf(lines)) =>
              \/ pc \in { "extract_blocks_lines", "filter_margin_blocks", "split_rashi_lines" }
                    /\ TextsOf(lines') = [lid \in DOMAIN lines' |-> << << >>, << >> >>]
              \/ pc \in { "split_done", "fill_line_text" } /\ DOMAIN lines' = DOMAIN lines ]_vars

\* a run that ends in pause_for_hitl with a sub-line made by the splitter
\* and read by the recognition stages
C16_Witness ==
    /\ pc = "pause_for_hitl"
    /\ \E lid \in DOMAIN lines :
          /\ IsSubLineId(lid)
          /\ lines[lid].rashi_tess_text # << >>
          /\ lines[lid].vlm_text # << >>

\* C17: every line names a block of the block map that lists the line exactly
\* once, and every id listed by a block is a line of the line map.
C17_LayoutIntegrity ==
    /\ \A lid \in DOMAIN lines :
          /\ lines[lid].block_id \in DOMAIN blocks
          /\ Cardinality({ k \in DOMAIN blocks[lines[lid].block_id].line_ids :
                              blocks[lines[lid].block_id].line_ids[k] = lid }) = 1
    /\ \A b \in DOMAIN blocks : Range(blocks[b].line_ids) \subseteq DOMAIN lines

\* after the splitter, on a page that lost a block to the margin filter and
\* had a line split
C17_Witness ==
    /\ pc = "split_done"
    /\ DOMAIN blocks # DOMAIN extract_blocks_lines(ocr.layout).blocks
    /\ \E lid \in DOMAIN lines : IsSubLineId(lid)
    /\ \E lid \in DOMAIN lines : ~IsSubLineId(lid)


\* the stages after the stream assigner
AfterAssign ==
    { "assigned", "aligned", "matched", "cut", "validated", "pause_for_hitl", "persist" }

RashiBlocks == { b \in DOMAIN blocks : blocks[b].font = "rashi" }

\* C28: a run reaches persist only if the page holds no commentary-script
\* block after classification: from the assigner on every commentary-script
\* block is in unknown_block_ids, so validation asks for review and a page
\* with such a block ends in pause_for_hitl.
C28_RashiPageNeverPersists ==
    /\ pc = "persist" => RashiBlocks = {}
    /\ pc \in AfterAssign => RashiBlocks \subseteq Range(unknown_block_ids)
    /\ (pc \in { "validated", "pause_for_hitl", "persist" } /\ RashiBlocks # {}) =>
          /\ needs_human_review
          /\ "unknown_blocks" \in Range(validation_flags)
          /\ pc # "persist"

\* a page with a commentary-script block paused for review although its
\* commentary span was matched and no alignment or cut failed
C28_Witness ==
    /\ pc = "pause_for_hitl"
    /\ RashiBlocks # {}
    /\ Range(unknown_block_ids) = RashiBlocks
    /\ validation_flags = << "unknown_blocks" >>
    /\ boundary_cut_failures = << >>
    /\ \A k \in 1..Len(segment_spans) : ~SpanFailed(segment_spans[k])
    /\ \E k \in 1..Len(segment_spans) : segment_spans[k].stream_id # MainStreamId(streams)


(***************************************************************************)
(* SpecSession: the requests on one session                                *)
(*   app.start_session runs the graph (the stages of SpecPipeline) and     *)
(*   stores the outcome; app.apply_fixes and app.finalize follow in any    *)
(*   order. pc holds the stage of the run, then the last response.         *)
(***************************************************************************)
MaxPageDocs == 2

\* the responses after which the session takes a further request
SessionIdle == { "started", "ok", "not_found", "bad_request", "finalized" }

\* the start request on a page of one block with one line and a main stream
\* of one segment
InitSession ==
    /\ pc = "assign_blocks"
    /\ page = PipePage
    /\ \E t \in PipeLineTexts :
          /\ blocks = << [Block(PipeLineBox(1), << 1 >>) EXCEPT !.font = "hebrew"] >>
          /\ lines = << [Line(1, PipeLineBox(1), order_hint_of(PipeLineBox(1)), FALSE)
                            EXCEPT !.vlm_text = t] >>
    /\ \E t \in PipeSegTexts \cup { << "a", "c" >> } :
          streams = << Stream("s0", << 1 >>, << t >>) >>
    /\ use_embeddings = FALSE
    /\ embedding \in PipeEmbeddings
    /\ \E words \in CutWordLists : ocr = [colon_xs |-> << >>, cut_words |-> << words >>]
    /\ segment_spans = << >>
    /\ al = AlIdle
    /\ GateIdle
    /\ OutputIdle

\* app.start_session after graph_app.invoke: the upsert of the serialized
\* state and the response
StartSessionStore ==
    /\ pc \in { "pause_for_hitl", "persist" }
    /\ sessions_db' = [s \in DOMAIN sessions_db \cup { SessionId } |->
                          IF s = SessionId THEN serialize_state ELSE sessions_db[s]]
    /\ pc' = "started"
    /\ UNCHANGED << page, blocks, lines, streams, use_embeddings, unknown_block_ids,
                    unassigned_stream_ids, segment_spans, boundary_cut_failures,
                    validation_flags, needs_human_review, al, commentary_spans,
                    page_bboxes, pages_db, ocr, embedding, call >>

\* app.apply_fixes on a session that was started
SessionApplyFixes ==
    /\ pc \in SessionIdle
    /\ ApplyFixes

\* the page document finalize builds from a stored session document
session_doc_to_tzuratlink_page(doc) ==
    [bboxes |-> segment_spans_to_bboxes(doc.lines, doc.segment_spans, doc.page.w, doc.page.h)]

\* app.finalize
Finalize ==
    /\ pc \in SessionIdle
    /\ Len(pages_db) < MaxPageDocs
    /\ \E sid \in RequestIds :
          IF sid \notin DOMAIN sessions_db
          THEN /\ pc' = "not_found"
               /\ UNCHANGED << pages_db, sessions_db >>
          ELSE /\ pages_db' = Append(pages_db, session_doc_to_tzuratlink_page(sessions_db[sid]))
               /\ sessions_db' =
                     [sessions_db EXCEPT
                         ![sid] = [persisted_page_id |-> Len(pages_db) + 1] @@ @]
               /\ pc' = "finalized"
    /\ UNCHANGED << page, blocks, lines, streams, use_embeddings, unknown_block_ids,
                    unassigned_stream_ids, segment_spans, boundary_cut_failures,
                    validation_flags, needs_human_review, al, commentary_spans,
                    page_bboxes, ocr, embedding, call >>

NextSession ==
    \/ NextPipeline
    \/ StartSessionStore
    \/ SessionApplyFixes
    \/ Finalize

SpecSession == InitSession /\ [][NextSession]_vars

\* needs_human_review of the session: that of its stored document, or of the
\* run while nothing is stored yet
SessionNeedsReview ==
    IF SessionId \in DOMAIN sessions_db
    THEN sessions_db[SessionId].needs_human_review
    ELSE needs_human_review

\* C29 as stated: over any sequence of start, apply_fixes and finalize
\* requests on a session, a page document is inserted into the page store only
\* while needs_human_review of the session is false, and at most one page
\* document is inserted for the session.
C29_OnePageOnlyWhenReviewed ==
    [][ Len(pages_db') > Len(pages_db) =>
           /\ ~SessionNeedsReview
           /\ Len(pages_db') <= 1 ]_vars


\* the cut flags of a span agree with its end_cut_x
CutFlagsConsistent(sp) ==
    /\ HasFlag(sp, "cut_ok") <=> sp.end_cut_x # << >>
    /\ ~(HasFlag(sp, "cut_ok") /\ HasFlag(sp, "cut_failed"))

\* C30 as stated: after the refiner and any sequence of human cut overrides,
\* every span of the run and of the stored session carries cut_ok exactly when
\* its end_cut_x is set, and no span carries both cut_ok and cut_failed.
C30_CutFlagsConsistent ==
    /\ \A k \in 1..Len(segment_spans) : CutFlagsConsistent(segment_spans[k])
    /\ SessionId \in DOMAIN sessions_db =>
          \A k \in 1..Len(sessions_db[SessionId].segment_spans) :
              CutFlagsConsistent(sessions_db[SessionId].segment_spans[k])

====
